---- MODULE Spec2Model ----
(***************************************************************************)
(* Smart Waste Management simulation: the city model, the KR reasoning     *)
(* pass, the sequential single-item auction, A* routing and the            *)
(* step-driven agent loop of app.py.                                       *)
(***************************************************************************)
EXTENDS Integers, Sequences, FiniteSets, TLC

VARIABLES
    grid_size,      \* City.grid_size
    closed,         \* edges of City.graph whose 'closed' attribute is True
    closed_roads,   \* City.closed_roads, a list of (u, v) pairs
    time_elapsed,   \* City.time_elapsed
    bins,           \* City.bins: bin id -> Bin
    trucks,         \* City.trucks: truck id -> Truck
    current_step,   \* st.session_state.current_step
    step_data,      \* st.session_state.step_data
    routes,         \* st.session_state.routes: truck id -> path
    kpi_bins_collected, \* st.session_state.kpi_bins_collected
    call            \* a direct call of one of the pure functions: arguments and result

vars == <<grid_size, closed, closed_roads, time_elapsed, bins, trucks,
          current_step, step_data, routes, kpi_bins_collected, call>>

-----------------------------------------------------------------------------
(* Bounds of the model *)

GridSize == 2          \* side of the grid of the step-driven city
MaxClosures == 2       \* calls of trigger_random_event in one run
MaxCycles == 2         \* collection cycles in one run
NumBins == 3           \* num_bins of the step-driven city
NumTrucks == 2         \* num_trucks of the step-driven city
TruckCapacity == 12    \* truck_capacity of the step-driven city
BinCapacity == 10      \* bin_capacity of the step-driven city
FillRate == 1          \* fill_rate of the bins of the step-driven city
MaxRoute == 2          \* waypoints of the current route in direct calls of compute_bid
ReasonBins == 6        \* bins in direct calls of reason_all_bins
RouteGrid == 3         \* side of the grid in direct calls of astar_path
RouteClosures == 1     \* separately closed edges in direct calls of astar_path

-----------------------------------------------------------------------------
(* Python floats: a finite number, +inf, -inf or nan *)

Fin(n) == [k |-> "fin", v |-> n]
Inf == [k |-> "inf", v |-> 0]
NegInf == [k |-> "ninf", v |-> 0]
NaN == [k |-> "nan", v |-> 0]

\* a + b
FAdd(a, b) ==
    IF a.k = "nan" \/ b.k = "nan" THEN NaN
    ELSE IF a.k = "fin" /\ b.k = "fin" THEN Fin(a.v + b.v)
    ELSE IF a.k = "fin" THEN b
    ELSE IF b.k = "fin" THEN a
    ELSE IF a.k = b.k THEN a
    ELSE NaN

\* -a
FNeg(a) ==
    CASE a.k = "fin" -> Fin(0 - a.v)
      [] a.k = "inf" -> NegInf
      [] a.k = "ninf" -> Inf
      [] OTHER -> NaN

\* a local name: Body applied to a value that is computed once
Bind(value, Body(_)) == Body(value)

\* a - b
FSub(a, b) == FAdd(a, FNeg(b))

\* a < b (every comparison with nan is False)
FLess(a, b) ==
    IF a.k = "nan" \/ b.k = "nan" THEN FALSE
    ELSE IF a.k = "fin" /\ b.k = "fin" THEN a.v < b.v
    ELSE IF a.k = "ninf" THEN b.k # "ninf"
    ELSE IF a.k = "inf" THEN FALSE
    ELSE b.k = "inf"

\* min(a, b) of two floats: Python keeps a unless b < a
FMin(a, b) == IF FLess(b, a) THEN b ELSE a

-----------------------------------------------------------------------------
(* The road network: networkx grid graphs *)

Nodes(n) == (0 .. n - 1) \X (0 .. n - 1)

Abs(i) == IF i < 0 THEN 0 - i ELSE i

Manhattan(a, b) == Abs(a[1] - b[1]) + Abs(a[2] - b[2])

\* nx.grid_2d_graph(n, n).edges(), each edge as the set of its two ends
GridEdges(n) ==
    {{p[1], p[2]} : p \in {q \in Nodes(n) \X Nodes(n) : Manhattan(q[1], q[2]) = 1}}

\* A networkx graph on the n x n grid: the edges it has, and those of them
\* whose 'closed' attribute is True
NxGraph(n, edges, closedEdges) == [size |-> n, edges |-> edges, closed |-> closedEdges]

\* graph.neighbors(u), in the adjacency order grid_2d_graph builds
Neighbors(g, u) ==
    SelectSeq(<< <<u[1] - 1, u[2]>>, <<u[1] + 1, u[2]>>,
                 <<u[1], u[2] - 1>>, <<u[1], u[2] + 1>> >>,
              LAMBDA v : {u, v} \in g.edges)

\* what nx.shortest_path_length gives when it raises NetworkXNoPath
NoPath == [k |-> "NetworkXNoPath", v |-> 0]

RECURSIVE BfsLength(_, _, _, _, _)
BfsLength(g, frontier, visited, goal, d) ==
    IF goal \in frontier THEN Fin(d)
    ELSE LET next == {v \in Nodes(g.size) :
                        /\ v \notin visited
                        /\ \E u \in frontier : {u, v} \in g.edges}
         IN IF next = {} THEN NoPath
            ELSE BfsLength(g, next, visited \cup next, goal, d + 1)

\* nx.shortest_path_length(graph, a, b, weight='weight'): every edge of the
\* grid weighs 1; the 'closed' attribute plays no part
ShortestPathLength(g, a, b) == BfsLength(g, {a}, {a}, b, 0)

-----------------------------------------------------------------------------
(* A* routing: AStarPlanner *)

heuristic(pos1, pos2) == Abs(pos1[1] - pos2[1]) + Abs(pos1[2] - pos2[2])

RECURSIVE _reconstruct_path(_, _, _)
_reconstruct_path(came_from, current, path) ==
    IF current \in DOMAIN came_from
    THEN _reconstruct_path(came_from, came_from[current], <<came_from[current]>> \o path)
    ELSE path

\* a stack instead of a priority queue: the entry pushed last
HeapTopLifo(open_set) ==
    CHOOSE t \in open_set : \A o \in open_set : t[2] >= o[2]

\* heapq.heappop: the least (f_score, counter, node) tuple
HeapTop(open_set) ==
    CHOOSE t \in open_set :
        \A o \in open_set : t[1] < o[1] \/ (t[1] = o[1] /\ t[2] <= o[2])

\* the edge test left out: every neighbour is expanded
EdgeOpenAlways(g, current, neighbor) == TRUE

\* the edge test of the neighbour loop: the neighbour is expanded
EdgeOpen(g, current, neighbor) == {current, neighbor} \notin g.closed

\* the neighbour loop of astar_path for one popped node
RECURSIVE AStarNeighbors(_, _, _, _, _, _)
AStarNeighbors(g, goal, current, nbrs, closed_set, st) ==
    IF nbrs = <<>> THEN st
    ELSE LET neighbor == Head(nbrs)
             tentative_g == st.g_score[current] + 1
         IN IF \/ neighbor \in closed_set
               \/ ~EdgeOpen(g, current, neighbor)
               \/ (neighbor \in DOMAIN st.g_score /\ ~(tentative_g < st.g_score[neighbor]))
            THEN AStarNeighbors(g, goal, current, Tail(nbrs), closed_set, st)
            ELSE AStarNeighbors(g, goal, current, Tail(nbrs), closed_set,
                    [g_score |-> (neighbor :> tentative_g) @@ st.g_score,
                     came_from |-> (neighbor :> current) @@ st.came_from,
                     counter |-> st.counter + 1,
                     open_set |-> st.open_set \cup
                        {<<tentative_g + heuristic(neighbor, goal), st.counter + 1, neighbor>>}])

\* the while loop of astar_path; iterations counts the pops
RECURSIVE AStarLoop(_, _, _, _, _)
AStarLoop(g, goal, closed_set, st, iterations) ==
    IF st.open_set = {}
    THEN [found |-> FALSE, path |-> <<>>, explored |-> closed_set, iterations |-> iterations]
    ELSE LET top == HeapTop(st.open_set)
             current == top[3]
             popped == [st EXCEPT !.open_set = @ \ {top}]
         IN IF current = goal
            THEN [found |-> TRUE,
                  path |-> _reconstruct_path(st.came_from, current, <<current>>),
                  explored |-> closed_set, iterations |-> iterations + 1]
            ELSE IF current \in closed_set
            THEN AStarLoop(g, goal, closed_set, popped, iterations + 1)
            ELSE AStarLoop(g, goal, closed_set \cup {current},
                    AStarNeighbors(g, goal, current, Neighbors(g, current),
                                   closed_set \cup {current}, popped),
                    iterations + 1)

\* AStarPlanner.astar_path(start, goal): found = FALSE stands for None
astar_path(g, start, goal) ==
    IF start = goal
    THEN [found |-> TRUE, path |-> <<start>>, explored |-> {}, iterations |-> 0]
    ELSE IF start \notin Nodes(g.size) \/ goal \notin Nodes(g.size)
    THEN [found |-> FALSE, path |-> <<>>, explored |-> {}, iterations |-> 0]
    ELSE AStarLoop(g, goal, {},
            [g_score |-> (start :> 0), came_from |-> <<>>, counter |-> 0,
             open_set |-> {<<heuristic(start, goal), 0, start>>}], 0)

\* min(remaining, key=lambda wp: self.heuristic(current, wp)): the first nearest
RECURSIVE Nearest(_, _, _)
Nearest(current, remaining, best) ==
    IF remaining = <<>> THEN best
    ELSE Nearest(current, Tail(remaining),
                 IF heuristic(current, Head(remaining)) < heuristic(current, best)
                 THEN Head(remaining) ELSE best)

\* remaining.remove(x): drops the first occurrence of x
RemoveFirst(q, x) ==
    LET i == CHOOSE j \in 1 .. Len(q) : q[j] = x /\ \A h \in 1 .. j - 1 : q[h] # x
    IN SubSeq(q, 1, i - 1) \o SubSeq(q, i + 1, Len(q))

RECURSIVE OrderLoop(_, _, _)
OrderLoop(current, remaining, ordered) ==
    IF remaining = <<>> THEN ordered
    ELSE LET nearest == Nearest(current, Tail(remaining), Head(remaining))
         IN OrderLoop(nearest, RemoveFirst(remaining, nearest), Append(ordered, nearest))

_order_waypoints_nearest_neighbor(start, waypoints, depot) ==
    OrderLoop(start, waypoints, <<>>)

\* the slip: the next segment is planned from where the truck started, not from
\* the waypoint just reached
RECURSIVE PlanLoopFromStart(_, _, _)
PlanLoopFromStart(g, ordered_waypoints, st) ==
    IF ordered_waypoints = <<>> THEN st
    ELSE LET wp == Head(ordered_waypoints)
             segment == astar_path(g, st.current, wp)
             seen == st.explored \cup segment.explored
         IN IF ~segment.found
            THEN PlanLoopFromStart(g, Tail(ordered_waypoints), [st EXCEPT !.explored = seen])
            ELSE PlanLoopFromStart(g, Tail(ordered_waypoints),
                    [full_path |-> IF st.full_path # <<>>
                                   THEN st.full_path \o Tail(segment.path)
                                   ELSE segment.path,
                     total_distance |-> st.total_distance + Len(segment.path) - 1,
                     current |-> st.current,
                     explored |-> seen])

\* the waypoint loop of plan_route
RECURSIVE PlanLoop(_, _, _)
PlanLoop(g, ordered_waypoints, st) ==
    IF ordered_waypoints = <<>> THEN st
    ELSE LET wp == Head(ordered_waypoints)
             segment == astar_path(g, st.current, wp)
             seen == st.explored \cup segment.explored
         IN IF ~segment.found
            THEN PlanLoop(g, Tail(ordered_waypoints), [st EXCEPT !.explored = seen])
            ELSE PlanLoop(g, Tail(ordered_waypoints),
                    [full_path |-> IF st.full_path # <<>>
                                   THEN st.full_path \o Tail(segment.path)
                                   ELSE segment.path,
                     total_distance |-> st.total_distance + Len(segment.path) - 1,
                     current |-> wp,
                     explored |-> seen])

\* AStarPlanner.plan_route: path, ordered waypoints, distance
plan_route(g, truck_id, start, waypoints, depot) ==
    IF waypoints = <<>>
    THEN LET r == astar_path(g, start, depot)
         IN [truck_id |-> truck_id,
             path |-> IF r.found THEN r.path ELSE <<start>>,
             waypoints |-> <<>>,
             distance |-> IF r.found THEN Fin(Len(r.path) - 1) ELSE Inf,
             explored_nodes |-> r.explored]
    ELSE LET ordered_waypoints == _order_waypoints_nearest_neighbor(start, waypoints, depot)
             st == PlanLoop(g, ordered_waypoints,
                      [full_path |-> <<>>, total_distance |-> 0,
                       current |-> start, explored |-> {}])
             final_segment == astar_path(g, st.current, depot)
             reached == final_segment.found /\ final_segment.path # <<>>
         IN [truck_id |-> truck_id,
             path |-> IF reached THEN st.full_path \o Tail(final_segment.path)
                      ELSE st.full_path,
             waypoints |-> ordered_waypoints,
             distance |-> Fin(IF reached
                              THEN st.total_distance + Len(final_segment.path) - 1
                              ELSE st.total_distance),
             explored_nodes |-> st.explored \cup final_segment.explored]

-----------------------------------------------------------------------------
(* Auction-based allocation: modules/auction.py *)

\* the keys of a dict whose keys are 0 .. n-1, in insertion order
Keys(d) == [i \in 1 .. Cardinality(DOMAIN d) |-> i - 1]

\* a distance as a float; a raised NetworkXNoPath stays NoPath
RECURSIVE RouteLegs(_, _, _, _)
RouteLegs(g, current, waypoints, total) ==
    IF waypoints = <<>> THEN <<total, current>>
    ELSE Bind(ShortestPathLength(g, current, Head(waypoints)),
              LAMBDA d : IF d = NoPath THEN <<Inf, current>>
                         ELSE RouteLegs(g, Head(waypoints), Tail(waypoints),
                                        FAdd(total, d)))

calculate_route_cost(start, waypoints, end, g) ==
    IF waypoints = <<>>
    THEN Bind(ShortestPathLength(g, start, end),
              LAMBDA d : IF d = NoPath THEN Inf ELSE d)
    ELSE Bind(RouteLegs(g, start, waypoints, Fin(0)),
              LAMBDA legs :
                 IF legs[1] = Inf THEN Inf
                 ELSE Bind(ShortestPathLength(g, legs[2], end),
                           LAMBDA d : IF d = NoPath THEN Inf ELSE FAdd(legs[1], d)))

\* current_route[:i] + [new_bin_position] + current_route[i:]
InsertAt(route, i, pos) ==
    SubSeq(route, 1, i) \o <<pos>> \o SubSeq(route, i + 1, Len(route))

\* the insertion loop of compute_marginal_cost, for i = lo .. len(current_route)
RECURSIVE BestInsertion(_, _, _, _, _, _, _)
BestInsertion(truck_position, current_route, new_bin_position, g, depot, i, new_cost) ==
    IF i > Len(current_route) THEN new_cost
    ELSE BestInsertion(truck_position, current_route, new_bin_position, g, depot, i + 1,
            FMin(new_cost,
                 calculate_route_cost(truck_position,
                     InsertAt(current_route, i, new_bin_position), depot, g)))

\* the way back to the depot left out of the cost
EmptyRouteCostOneWay(dist_to_bin, dist_to_depot) == dist_to_bin

\* the cost of an empty route with the new bin: out to the bin and back to the depot
EmptyRouteCost(dist_to_bin, dist_to_depot) == FAdd(dist_to_bin, dist_to_depot)

\* (marginal_cost, current_total, new_total)
compute_marginal_cost(truck_position, current_route, new_bin_position, g, depot) ==
    IF current_route = <<>>
    THEN Bind(<<ShortestPathLength(g, truck_position, new_bin_position),
                ShortestPathLength(g, new_bin_position, depot)>>,
              LAMBDA dist :
                 IF dist[1] = NoPath \/ dist[2] = NoPath
                 THEN <<Inf, Inf, Inf>>
                 ELSE Bind(EmptyRouteCost(dist[1], dist[2]),
                           LAMBDA new_cost : <<FSub(new_cost, Fin(0)), Fin(0), new_cost>>))
    ELSE Bind(<<calculate_route_cost(truck_position, current_route, depot, g),
                BestInsertion(truck_position, current_route, new_bin_position,
                              g, depot, 0, Inf)>>,
              LAMBDA cost : <<FSub(cost[2], cost[1]), cost[1], cost[2]>>)

compute_bid(truck_id, position, route, bin_id, bin_obj, g, depot) ==
    Bind(compute_marginal_cost(position, route, bin_obj.position, g, depot),
         LAMBDA m : [truck_id |-> truck_id, bin_id |-> bin_id, bid_value |-> m[1],
                     current_route_cost |-> m[2], new_route_cost |-> m[3]])

\* the capacity test left out: every truck bids
OverCapacityNever(load, fill_level, capacity) == FALSE

\* the capacity test of the bidding loop: the truck is skipped
OverCapacity(load, fill_level, capacity) == load + fill_level > capacity

\* the bidding loop of allocate_bins over the trucks tids
RECURSIVE CollectBids(_, _, _, _, _, _, _)
CollectBids(tids, st, bin_id, bin_obj, g, depot, all_bids) ==
    IF tids = <<>> THEN all_bids
    ELSE LET truck_id == Head(tids)
         IN IF OverCapacity(st.truck_loads[truck_id], bin_obj.fill_level,
                            st.trucks[truck_id].capacity)
            THEN CollectBids(Tail(tids), st, bin_id, bin_obj, g, depot, all_bids)
            ELSE CollectBids(Tail(tids), st, bin_id, bin_obj, g, depot,
                    Append(all_bids,
                        compute_bid(truck_id, st.trucks[truck_id].position,
                                    st.truck_routes[truck_id], bin_id, bin_obj, g, depot)))

\* min(all_bids, key=lambda b: b.bid_value): the first bid no later bid is below
RECURSIVE MinBid(_, _)
MinBid(all_bids, best) ==
    IF all_bids = <<>> THEN best
    ELSE MinBid(Tail(all_bids),
                IF FLess(Head(all_bids).bid_value, best.bid_value)
                THEN Head(all_bids) ELSE best)

\* the test left out: the lowest bid wins even when it is infinite
NoFeasibleBidNever(winning_bid) == FALSE

\* the test that ends a round without a winner
NoFeasibleBid(winning_bid) == winning_bid.bid_value = Inf

\* the end of an iteration of the loop of allocate_bins: the winner's state is
\* updated and the AllocationResult appended, unless the lowest bid is infinite
AwardBin(st, bin_id, bin_obj, all_bids, winning_bid) ==
    IF NoFeasibleBid(winning_bid) THEN st
    ELSE [truck_routes |->
            [st.truck_routes EXCEPT ![winning_bid.truck_id] = Append(@, bin_obj.position)],
          truck_loads |->
            [st.truck_loads EXCEPT ![winning_bid.truck_id] = @ + bin_obj.fill_level],
          trucks |->
            [st.trucks EXCEPT
                ![winning_bid.truck_id].assigned_bins = Append(@, bin_id),
                ![winning_bid.truck_id].route = Append(@, bin_obj.position)],
          allocations |->
            Append(st.allocations,
                [bin_id |-> bin_id, truck_id |-> winning_bid.truck_id,
                 winning_bid |-> winning_bid.bid_value,
                 all_bids |-> all_bids])]

\* one iteration of the loop of allocate_bins, for bin_id
AuctionRound(st, bin_id, bins_, g, depot) ==
    IF bin_id \notin DOMAIN bins_ THEN st
    ELSE Bind(CollectBids(Keys(st.trucks), st, bin_id, bins_[bin_id], g, depot, <<>>),
              LAMBDA all_bids :
                 IF all_bids = <<>> THEN st
                 ELSE AwardBin(st, bin_id, bins_[bin_id], all_bids,
                               MinBid(Tail(all_bids), Head(all_bids))))

\* the state allocate_bins starts its loop with
AuctionStart(trucks_) ==
    [truck_routes |-> [tid \in DOMAIN trucks_ |-> trucks_[tid].route],
     truck_loads |-> [tid \in DOMAIN trucks_ |-> trucks_[tid].current_load],
     trucks |-> trucks_,
     allocations |-> <<>>]

\* the states of allocate_bins before its loop and after each iteration
RECURSIVE AuctionTrace(_, _, _, _, _)
AuctionTrace(trace, eligible_bin_ids, bins_, g, depot) ==
    IF eligible_bin_ids = <<>> THEN trace
    ELSE AuctionTrace(
            Append(trace, AuctionRound(trace[Len(trace)], Head(eligible_bin_ids),
                                       bins_, g, depot)),
            Tail(eligible_bin_ids), bins_, g, depot)

\* allocate_bins: the allocations it returns and the trucks as it leaves them
allocate_bins(eligible_bin_ids, trucks_, bins_, g, depot) ==
    Bind(AuctionTrace(<<AuctionStart(trucks_)>>, eligible_bin_ids, bins_, g, depot),
         LAMBDA trace : trace[Len(trace)])

-----------------------------------------------------------------------------
(* Prediction and KR reasoning: modules/prediction.py, modules/reasoning.py *)

FULL_THRESHOLD == 80
URGENT_THRESHOLD == 120
MINUTES_PER_STEP == 30
ASSIGNMENTS_PER_TRUCK == 5

\* a finite float that need not be whole: n / d with d > 0
Rat(n, d) == [k |-> "fin", n |-> n, d |-> d]
RatInf == [k |-> "inf", n |-> 1, d |-> 1]

\* a <= b for two such numbers
RatLeq(a, b) ==
    IF b.k = "inf" THEN TRUE
    ELSE IF a.k = "inf" THEN FALSE
    ELSE a.n * b.d <= b.n * a.d

\* (bin_obj.fill_level / max_capacity) * 100 if max_capacity > 0 else 0
FillPercentage(bin_obj) ==
    IF bin_obj.max_capacity > 0
    THEN Rat(bin_obj.fill_level * 100, bin_obj.max_capacity)
    ELSE Rat(0, 1)

\* the two tests the other way round: a rate of zero or less gives inf even when full
predict_etaRateFirst(fill_level, fill_rate, minutes_per_step) ==
    IF fill_rate <= 0 THEN RatInf
    ELSE IF RatLeq(Rat(100, 1), fill_level) THEN Rat(0, 1)
    ELSE Rat((100 * fill_level.d - fill_level.n) * minutes_per_step,
             fill_level.d * fill_rate)

predict_eta(fill_level, fill_rate, minutes_per_step) ==
    IF RatLeq(Rat(100, 1), fill_level) THEN Rat(0, 1)
    ELSE IF fill_rate <= 0 THEN RatInf
    ELSE Rat((100 * fill_level.d - fill_level.n) * minutes_per_step,
             fill_level.d * fill_rate)

rule_is_full(fill_level) == RatLeq(Rat(FULL_THRESHOLD, 1), fill_level)

rule_is_urgent(eta_minutes) == RatLeq(eta_minutes, Rat(URGENT_THRESHOLD, 1))

\* the rule with "or not collected" in place of "and not collected"
rule_is_eligibleOr(is_full, is_urgent, is_collected) ==
    (is_full \/ is_urgent) \/ ~is_collected

rule_is_eligible(is_full, is_urgent, is_collected) ==
    (is_full \/ is_urgent) /\ ~is_collected

classify_bin(bin_id, bin_obj, minutes_per_step) ==
    LET fill_percentage == FillPercentage(bin_obj)
        eta == predict_eta(fill_percentage, bin_obj.fill_rate, minutes_per_step)
        is_full == rule_is_full(fill_percentage)
        is_urgent == rule_is_urgent(eta)
    IN [bin_id |-> bin_id, is_full |-> is_full, is_urgent |-> is_urgent,
        is_eligible |-> rule_is_eligible(is_full, is_urgent, bin_obj.collected)]

classify_all_bins(bins_, minutes_per_step) ==
    [i \in 1 .. Cardinality(DOMAIN bins_) |->
        classify_bin(Keys(bins_)[i], bins_[Keys(bins_)[i]], minutes_per_step)]

RECURSIVE SumSeq(_)
SumSeq(q) == IF q = <<>> THEN 0 ELSE Head(q) + SumSeq(Tail(q))

\* the sum of the capacities alone, the loads already on board left out
TotalCapacityGross(trucks_) ==
    SumSeq([i \in 1 .. Cardinality(DOMAIN trucks_) |-> trucks_[Keys(trucks_)[i]].capacity])

\* sum(t.capacity - t.current_load for t in trucks.values())
TotalCapacity(trucks_) ==
    SumSeq([i \in 1 .. Cardinality(DOMAIN trucks_) |->
                trucks_[Keys(trucks_)[i]].capacity - trucks_[Keys(trucks_)[i]].current_load])

\* the cap set one assignment too high
max_assignmentsOffByOne(trucks_) == Cardinality(DOMAIN trucks_) * ASSIGNMENTS_PER_TRUCK + 1

max_assignments(trucks_) == Cardinality(DOMAIN trucks_) * ASSIGNMENTS_PER_TRUCK

\* the status one iteration of the loop of reason_all_bins gives its bin
ReasonStatus(bin_obj, c, capacity_used, assigned_count, total_capacity, trucks_) ==
    IF bin_obj.collected THEN <<"GREY", "">>
    ELSE IF ~rule_is_eligible(c.is_full, c.is_urgent, bin_obj.collected) THEN <<"GREY", "">>
    ELSE IF capacity_used + bin_obj.fill_level > total_capacity
         THEN <<"ORANGE", "Capacity Constraint">>
    ELSE IF assigned_count >= max_assignments(trucks_)
         THEN <<"ORANGE", "Assignment Limit">>
    ELSE <<"GREEN", "">>

\* the loop of reason_all_bins over the bins ids
RECURSIVE ReasonLoop(_, _, _, _, _, _, _)
ReasonLoop(ids, bins_, predicted_set, trucks_, capacity_used, assigned_count, results) ==
    IF ids = <<>> THEN results
    ELSE LET bin_id == Head(ids)
             bin_obj == bins_[bin_id]
             c == classify_bin(bin_id, bin_obj, MINUTES_PER_STEP)
             s == ReasonStatus(bin_obj, c, capacity_used, assigned_count,
                               TotalCapacity(trucks_), trucks_)
             green == s[1] = "GREEN"
         IN ReasonLoop(Tail(ids), bins_, predicted_set, trucks_,
                IF green THEN capacity_used + bin_obj.fill_level ELSE capacity_used,
                IF green THEN assigned_count + 1 ELSE assigned_count,
                Append(results,
                    [bin_id |-> bin_id, status |-> s[1],
                     is_predicted |-> bin_id \in predicted_set,
                     block_reason |-> s[2]]))

reason_all_bins(bins_, predicted_bin_ids, trucks_) ==
    ReasonLoop(Keys(bins_), bins_, {predicted_bin_ids[i] : i \in DOMAIN predicted_bin_ids},
               trucks_, 0, 0, <<>>)

get_green_bins(reasoning_results) ==
    LET green == SelectSeq(reasoning_results, LAMBDA r : r.status = "GREEN")
    IN [i \in DOMAIN green |-> green[i].bin_id]

\* plan_all_routes: one RouteResult per truck, in the order of the trucks
plan_all_routes(trucks_, bins_, g, depot) ==
    [i \in 1 .. Cardinality(DOMAIN trucks_) |->
        LET truck_id == Keys(trucks_)[i]
            assigned == SelectSeq(trucks_[truck_id].assigned_bins,
                                  LAMBDA bin_id : bin_id \in DOMAIN bins_)
        IN plan_route(g, truck_id, trucks_[truck_id].position,
                      [j \in DOMAIN assigned |-> bins_[assigned[j]].position], depot)]

-----------------------------------------------------------------------------
(* The city: modules/simulation.py *)

\* City.depot
Depot == <<0, 0>>

\* list(self.graph.edges()): each edge once, from its first end in node order
EdgeList(n) ==
    {p \in Nodes(n) \X Nodes(n) :
        /\ Manhattan(p[1], p[2]) = 1
        /\ (p[1][1] < p[2][1] \/ (p[1][1] = p[2][1] /\ p[1][2] < p[2][2]))}

\* City.to_networkx(): a new grid graph without the edges listed in closed_roads
to_networkx ==
    NxGraph(grid_size,
            GridEdges(grid_size) \
                {{closed_roads[i][1], closed_roads[i][2]} : i \in DOMAIN closed_roads},
            {})

\* Bin.__init__ and the fields City.__init__ and City.step keep up to date
Bin(pos, max_capacity, fill_level, fill_rate) ==
    [position |-> pos, max_capacity |-> max_capacity, fill_level |-> fill_level,
     fill_rate |-> fill_rate, is_full |-> fill_level * 10 >= max_capacity * 8,
     collected |-> FALSE]

\* Truck.__init__
Truck(start_pos, capacity) ==
    [position |-> start_pos, capacity |-> capacity, assigned_bins |-> <<>>,
     route |-> <<>>, current_load |-> 0]

\* the fill level City.step(minutes) leaves a bin with
StepFill(bin_obj, minutes) ==
    LET increase == (bin_obj.fill_rate * minutes) \div 30
        level == bin_obj.fill_level + increase
    IN IF level < bin_obj.max_capacity THEN level ELSE bin_obj.max_capacity

\* City.step(minutes)
CityStep(bins_, minutes) ==
    [b \in DOMAIN bins_ |->
        [bins_[b] EXCEPT
            !.fill_level = StepFill(bins_[b], minutes),
            !.is_full = StepFill(bins_[b], minutes) * 10 >= bins_[b].max_capacity * 8]]

-----------------------------------------------------------------------------
(* The step-driven agent loop: app.py *)

\* st.session_state.step_data = {}: every .get(key, []) gives []
EmptyStepData ==
    [predicted_bin_ids |-> <<>>, reasoning_results |-> <<>>,
     green_bin_ids |-> <<>>, auction_results |-> <<>>]

NoCall == [op |-> "none"]

\* the bin ids of a list, as a set
Ids(q) == {q[i] : i \in DOMAIN q}

\* the fill levels City.__init__ draws for a critical bin
CriticalFills(bin_capacity) == (bin_capacity * 8) \div 10 .. (bin_capacity * 95) \div 100

\* the fill rates the model draws (% per step, within uniform(0.5, 3.0))
FillRates == {FillRate}

\* the truck capacities the model draws: room for one critical bin, or for two
TruckCapacities == {TruckCapacity, TruckCapacity + BinCapacity \div 2}

\* the placements of n bins on distinct nodes other than the depot
Placements(size, n) ==
    {f \in [0 .. n - 1 -> Nodes(size) \ {Depot}] :
        \A i, j \in 0 .. n - 1 : i # j => f[i] # f[j]}

\* City.__init__ and reset_simulation: every bin below min_critical_bins is critical
Init ==
    /\ grid_size = GridSize
    /\ closed = {}
    /\ closed_roads = <<>>
    /\ time_elapsed = 0
    /\ \E pos \in Placements(GridSize, NumBins) :
       \E fill \in [0 .. NumBins - 1 -> CriticalFills(BinCapacity)] :
       \E rate \in [0 .. NumBins - 1 -> FillRates] :
          bins = [b \in 0 .. NumBins - 1 |-> Bin(pos[b], BinCapacity, fill[b], rate[b])]
    /\ \E capacity \in TruckCapacities :
          trucks = [t \in 0 .. NumTrucks - 1 |-> Truck(Depot, capacity)]
    /\ current_step = 0
    /\ step_data = EmptyStepData
    /\ routes = <<>>
    /\ kpi_bins_collected = 0
    /\ call = NoCall

\* advance_step, run_step_logic(1): Predict
Predict ==
    /\ current_step = 0
    /\ current_step' = 1
    /\ LET classifications == classify_all_bins(bins, MINUTES_PER_STEP)
           predicted == SelectSeq(classifications, LAMBDA c : c.is_full \/ c.is_urgent)
       IN step_data' = [step_data EXCEPT
               !.predicted_bin_ids = [i \in DOMAIN predicted |-> predicted[i].bin_id]]
    /\ UNCHANGED <<grid_size, closed, closed_roads, time_elapsed, bins, trucks,
                   routes, kpi_bins_collected, call>>

\* advance_step, run_step_logic(2): Reason
Reason ==
    /\ current_step = 1
    /\ current_step' = 2
    /\ LET reasoning_results == reason_all_bins(bins, step_data.predicted_bin_ids, trucks)
       IN step_data' = [step_data EXCEPT
               !.reasoning_results = reasoning_results,
               !.green_bin_ids = get_green_bins(reasoning_results)]
    /\ UNCHANGED <<grid_size, closed, closed_roads, time_elapsed, bins, trucks,
                   routes, kpi_bins_collected, call>>

\* the load run_step_logic(3) gives truck tid after the auction
RECURSIVE WonLoad(_, _, _)
WonLoad(auction_results, tid, bins_) ==
    IF auction_results = <<>> THEN 0
    ELSE (IF Head(auction_results).truck_id = tid
          THEN bins_[Head(auction_results).bin_id].fill_level ELSE 0)
         + WonLoad(Tail(auction_results), tid, bins_)

\* run_step_logic(3) after allocate_bins has returned a: the results are stored and
\* the load of every winner is set to what it won in this pass
StoreAllocation(a) ==
    /\ step_data' = [step_data EXCEPT !.auction_results = a.allocations]
    /\ trucks' = [tid \in DOMAIN trucks |->
          IF \E i \in DOMAIN a.allocations : a.allocations[i].truck_id = tid
          THEN [a.trucks[tid] EXCEPT
                  !.current_load = WonLoad(a.allocations, tid, bins)]
          ELSE a.trucks[tid]]

\* advance_step, run_step_logic(3): Allocate
Allocate ==
    /\ current_step = 2
    /\ current_step' = 3
    /\ StoreAllocation(
          allocate_bins(step_data.green_bin_ids, trucks, bins, to_networkx, Depot))
    /\ UNCHANGED <<grid_size, closed, closed_roads, time_elapsed, bins,
                   routes, kpi_bins_collected, call>>

\* the bins the Execute loop empties: those assigned to a truck with a route
Emptied(trucks_, routes_) ==
    UNION {Ids(trucks_[tid].assigned_bins) : tid \in {t \in DOMAIN trucks_ : routes_[t] # <<>>}}

\* routes[res.truck_id] = res.path for every RouteResult
RoutesOf(ai_route_results) ==
    [tid \in DOMAIN trucks |->
        ai_route_results[CHOOSE i \in DOMAIN ai_route_results :
                            ai_route_results[i].truck_id = tid].path]

\* Execute: every truck with a route moves to its end, the bins assigned to it are
\* emptied, and its assignment and load are cleared
Execute(planned) ==
    /\ routes' = planned
    /\ trucks' = [tid \in DOMAIN trucks |->
          IF planned[tid] # <<>>
          THEN [trucks[tid] EXCEPT
                  !.position = planned[tid][Len(planned[tid])],
                  !.assigned_bins = <<>>,
                  !.current_load = 0]
          ELSE trucks[tid]]
    /\ bins' = [b \in DOMAIN bins |->
          IF b \in Emptied(trucks, planned)
          THEN [bins[b] EXCEPT !.fill_level = 0, !.is_full = FALSE,
                               !.collected = TRUE]
          ELSE bins[b]]

\* run_step_logic(4) after plan_all_routes has returned
StoreRoutes(ai_route_results) ==
    /\ kpi_bins_collected' =
          SumSeq([i \in DOMAIN ai_route_results |-> Len(ai_route_results[i].waypoints)])
    /\ Execute(RoutesOf(ai_route_results))

\* advance_step, run_step_logic(4): Plan and Execute
PlanExecute ==
    /\ current_step = 3
    /\ current_step' = 4
    /\ StoreRoutes(plan_all_routes(trucks, bins, to_networkx, Depot))
    /\ UNCHANGED <<grid_size, closed, closed_roads, time_elapsed, step_data, call>>

\* advance_step, run_step_logic(5): Adapt
Adapt ==
    /\ current_step = 4
    /\ current_step' = 5
    /\ UNCHANGED <<grid_size, closed, closed_roads, time_elapsed, bins, trucks,
                   step_data, routes, kpi_bins_collected, call>>

\* advance_step with current_step = 5: a new cycle starts
NewCycle ==
    /\ current_step = 5
    /\ time_elapsed < MINUTES_PER_STEP * (MaxCycles - 1)
    /\ current_step' = 0
    /\ time_elapsed' = time_elapsed + 30
    /\ bins' = CityStep(bins, 30)
    /\ routes' = <<>>
    /\ step_data' = EmptyStepData
    /\ UNCHANGED <<grid_size, closed, closed_roads, trucks, kpi_bins_collected, call>>

\* City.trigger_random_event(): closes one edge of the graph, chosen at random
trigger_random_event ==
    /\ Len(closed_roads) < MaxClosures
    /\ \E e \in EdgeList(grid_size) :
        /\ closed' = closed \cup {{e[1], e[2]}}
        /\ closed_roads' = Append(closed_roads, e)
    /\ UNCHANGED <<grid_size, time_elapsed, bins, trucks, current_step, step_data,
                   routes, kpi_bins_collected, call>>

Next ==
    \/ Predict
    \/ Reason
    \/ Allocate
    \/ PlanExecute
    \/ Adapt
    \/ NewCycle
    \/ trigger_random_event

Spec == Init /\ [][Next]_vars

-----------------------------------------------------------------------------
(* Direct calls of AStarPlanner.astar_path *)

\* the city variables of a specification that only calls a pure function
NoCity(size) ==
    /\ grid_size = size
    /\ closed = {}
    /\ closed_roads = <<>>
    /\ time_elapsed = 0
    /\ bins = <<>>
    /\ trucks = <<>>
    /\ current_step = 0
    /\ step_data = EmptyStepData
    /\ routes = <<>>
    /\ kpi_bins_collected = 0

CityVars == <<grid_size, closed, closed_roads, time_elapsed, bins, trucks,
              current_step, step_data, routes, kpi_bins_collected>>

\* the closures tried: at most k edges of the n x n grid, or every edge at one node
EdgeSets(n, k) ==
    {es \in SUBSET GridEdges(n) : Cardinality(es) <= k} \cup
    {{e \in GridEdges(n) : v \in e} : v \in Nodes(n)}

\* the graphs the program hands to a planner: City.graph with some edges marked
\* closed, or a to_networkx() view with some edges removed
PlannerGraphs(n, k) ==
    {NxGraph(n, GridEdges(n), es) : es \in EdgeSets(n, k)} \cup
    {NxGraph(n, GridEdges(n) \ es, {}) : es \in EdgeSets(n, k)}

InitAStar ==
    /\ NoCity(RouteGrid)
    /\ \E g \in PlannerGraphs(RouteGrid, RouteClosures) :
       \E start, goal \in Nodes(RouteGrid) :
          call = [op |-> "astar_path", graph |-> g, start |-> start, goal |-> goal,
                  done |-> FALSE]

CallAStar ==
    /\ call.op = "astar_path"
    /\ ~call.done
    /\ call' = [op |-> "astar_path", graph |-> call.graph, start |-> call.start,
                goal |-> call.goal, done |-> TRUE,
                result |-> astar_path(call.graph, call.start, call.goal)]
    /\ UNCHANGED CityVars

NextAStar == CallAStar

SpecAStar == InitAStar /\ [][NextAStar]_vars

\* the edges of g a truck can drive: present and not marked closed
OpenEdges(g) == g.edges \ g.closed

\* the number of edges of path
PathEdges(path) == Len(path) - 1

\* every step of path is along an open edge of g
Drivable(g, path) ==
    \A i \in 1 .. Len(path) - 1 : {path[i], path[i + 1]} \in OpenEdges(g)

AStarReturned == call.op = "astar_path" /\ call.done

\* C4: astar_path(a, b) returns a path from a to b whose number of edges is the
\* shortest-path distance between a and b over the open edges (the Manhattan
\* distance when no edge is closed or removed), for every pair that is connected.
C4_AStarOptimal ==
    AStarReturned =>
        LET g == call.graph
            d == ShortestPathLength(NxGraph(g.size, OpenEdges(g), {}), call.start, call.goal)
            r == call.result
        IN /\ d # NoPath =>
                /\ r.found
                /\ r.path[1] = call.start
                /\ r.path[Len(r.path)] = call.goal
                /\ PathEdges(r.path) = d.v
           /\ OpenEdges(g) = GridEdges(g.size) =>
                r.found /\ PathEdges(r.path) = Manhattan(call.start, call.goal)

\* C4 witness: a returned path that had to go round a closed edge
C4_Witness ==
    /\ AStarReturned
    /\ call.result.found
    /\ call.graph.closed # {}
    /\ PathEdges(call.result.path) > Manhattan(call.start, call.goal)

\* C5: a returned path never crosses a closed edge; when every route from a to b
\* needs a closed edge the result is None; the search ends within one pop per push.
C5_AStarRespectsClosures ==
    AStarReturned =>
        LET g == call.graph
            d == ShortestPathLength(NxGraph(g.size, OpenEdges(g), {}), call.start, call.goal)
            r == call.result
        IN /\ r.found => Drivable(g, r.path)
           /\ d = NoPath => ~r.found /\ r.path = <<>>
           /\ r.iterations <= 2 * Cardinality(g.edges) + 1

\* C5 witness: the goal is cut off by edges marked closed and the search gave None
C5_Witness ==
    /\ AStarReturned
    /\ ~call.result.found
    /\ call.graph.closed # {}
    /\ call.result.iterations > 0

-----------------------------------------------------------------------------
(* Direct calls of compute_bid *)

\* the to_networkx() views of the n x n grid with one of the closure sets removed
Views(n, k) == {NxGraph(n, GridEdges(n) \ es, {}) : es \in EdgeSets(n, k)}

\* the lists of at most k nodes
Routes(n, k) == UNION {[1 .. len -> Nodes(n)] : len \in 0 .. k}

InitBid ==
    /\ NoCity(GridSize)
    /\ \E g \in Views(GridSize, MaxClosures) :
       \E position, bin_position \in Nodes(GridSize) :
       \E route \in Routes(GridSize, MaxRoute) :
          call = [op |-> "compute_bid", graph |-> g, truck_position |-> position,
                  route |-> route, bin_position |-> bin_position, done |-> FALSE]

CallBid ==
    /\ call.op = "compute_bid"
    /\ ~call.done
    /\ call' = [op |-> "compute_bid", graph |-> call.graph,
                truck_position |-> call.truck_position, route |-> call.route,
                bin_position |-> call.bin_position, done |-> TRUE,
                result |-> compute_bid(0, call.truck_position, call.route, 0,
                                       Bin(call.bin_position, BinCapacity, 0, FillRate),
                                       call.graph, Depot)]
    /\ UNCHANGED CityVars

NextBid == CallBid

SpecBid == InitBid /\ [][NextBid]_vars

BidReturned == call.op = "compute_bid" /\ call.done

\* some leg of a route through these stops has no path: they are not all connected
SomeLegCutOff(g, stops) ==
    \E a, b \in stops : ShortestPathLength(g, a, b) = NoPath

\* C3: whenever some leg of the route the bid is computed over (truck position,
\* current waypoints, new bin, depot) has no path, the bid is exactly +infinity,
\* also when the current route itself is already unreachable.
C3_NoPathBidIsInf ==
    BidReturned =>
        (SomeLegCutOff(call.graph,
                       {call.truck_position, call.bin_position, Depot} \cup Ids(call.route))
            => call.result.bid_value = Inf)

-----------------------------------------------------------------------------
(* Direct calls of reason_all_bins *)

\* the bins tried: full, urgent but not full, neither, and full but collected
BinKinds ==
    {[Bin(Depot, BinCapacity, (BinCapacity * 8 + 9) \div 10, 1) EXCEPT !.collected = c] :
        c \in BOOLEAN} \cup
    {Bin(Depot, BinCapacity, (BinCapacity * 7) \div 10, 8),
     Bin(Depot, BinCapacity, (BinCapacity * 2) \div 10, 1)}

\* the fleets tried: up to NumTrucks trucks of one capacity, the first one
\* loaded or not
Fleets ==
    {[t \in 0 .. n - 1 |->
        [Truck(Depot, capacity) EXCEPT !.current_load = IF t = 0 THEN load ELSE 0]] :
        n \in 0 .. NumTrucks,
        capacity \in {TruckCapacity, BinCapacity * ReasonBins},
        load \in {0, BinCapacity \div 2}}

InitReason ==
    /\ NoCity(GridSize)
    /\ \E bs \in [0 .. ReasonBins - 1 -> BinKinds] :
       \E fleet \in Fleets :
          call = [op |-> "reason_all_bins", bins |-> bs, trucks |-> fleet, done |-> FALSE]

CallReason ==
    /\ call.op = "reason_all_bins"
    /\ ~call.done
    /\ call' = [op |-> "reason_all_bins", bins |-> call.bins, trucks |-> call.trucks,
                done |-> TRUE,
                result |-> reason_all_bins(call.bins, <<>>, call.trucks)]
    /\ UNCHANGED CityVars

NextReason == CallReason

SpecReason == InitReason /\ [][NextReason]_vars

ReasonReturned == call.op = "reason_all_bins" /\ call.done

\* the results of one status
WithStatus(results, status) == {i \in DOMAIN results : results[i].status = status}

\* C6: one reasoning pass classifies at most len(trucks) * 5 bins GREEN.
C6_GreenWithinLimit ==
    ReasonReturned =>
        Cardinality(WithStatus(call.result, "GREEN")) <= Cardinality(DOMAIN call.trucks) * 5

\* C6 witness: the limit is reached and a further eligible bin is blocked by it
C6_Witness ==
    /\ ReasonReturned
    /\ Cardinality(DOMAIN call.trucks) > 0
    /\ Cardinality(WithStatus(call.result, "GREEN")) = Cardinality(DOMAIN call.trucks) * 5
    /\ \E i \in DOMAIN call.result : call.result[i].block_reason = "Assignment Limit"

\* fill percentage >= 80, in whole numbers
IsFullPct(b) == b.max_capacity > 0 /\ b.fill_level * 100 >= 80 * b.max_capacity

\* ETA <= 120 minutes at 30 minutes per step, in whole numbers
IsUrgentEta(b) ==
    \/ b.max_capacity > 0 /\ b.fill_level >= b.max_capacity
    \/ /\ b.fill_rate > 0
       /\ (IF b.max_capacity > 0
           THEN (100 * b.max_capacity - 100 * b.fill_level) * 30
                    <= 120 * b.fill_rate * b.max_capacity
           ELSE 100 * 30 <= 120 * b.fill_rate)

BaseEligible(b) == (IsFullPct(b) \/ IsUrgentEta(b)) /\ ~b.collected

\* C7: reason_all_bins returns one result per bin, in the order of the bins; GREEN
\* and ORANGE go only to base-eligible bins ((fill >= 80% or ETA <= 120) and not
\* collected), ORANGE with a constraint named; every other bin is GREY.
C7_StatusFollowsEligibility ==
    ReasonReturned =>
        /\ Len(call.result) = Cardinality(DOMAIN call.bins)
        /\ \A i \in DOMAIN call.result :
            LET r == call.result[i]
                b == call.bins[r.bin_id]
            IN /\ r.bin_id = i - 1
               /\ r.status \in {"GREEN", "ORANGE", "GREY"}
               /\ r.status = "GREEN" => BaseEligible(b)
               /\ r.status = "ORANGE" =>
                    BaseEligible(b)
                    /\ r.block_reason \in {"Capacity Constraint", "Assignment Limit"}
               /\ ~BaseEligible(b) => r.status = "GREY"

\* C7 witness: one pass gives GREEN to an urgent bin that is not full, GREY to a
\* collected full bin and ORANGE to a blocked one
C7_Witness ==
    /\ ReasonReturned
    /\ \E i, j, h \in DOMAIN call.result :
        /\ call.result[i].status = "GREEN"
        /\ ~IsFullPct(call.bins[i - 1])
        /\ call.result[j].status = "GREY"
        /\ call.bins[j - 1].collected /\ IsFullPct(call.bins[j - 1])
        /\ call.result[h].status = "ORANGE"

-----------------------------------------------------------------------------
(* Properties of the step-driven loop *)

AllocateStep == current_step = 2 /\ current_step' = 3

\* the fill levels of the first k allocations that went to truck tid
RECURSIVE WonUpTo(_, _, _, _)
WonUpTo(allocations, k, tid, bins_) ==
    IF k = 0 THEN 0
    ELSE WonUpTo(allocations, k - 1, tid, bins_)
         + (IF allocations[k].truck_id = tid
            THEN bins_[allocations[k].bin_id].fill_level ELSE 0)

\* C1: in an allocation pass, after every single win, each truck's load at the
\* start of the pass plus the fill levels of the bins it has won so far is within
\* its capacity.
C1_NeverOverCommitted ==
    [][AllocateStep =>
        \A tid \in DOMAIN trucks :
        \A k \in 0 .. Len(step_data'.auction_results) :
            trucks[tid].current_load
                + WonUpTo(step_data'.auction_results, k, tid, bins)
            <= trucks[tid].capacity]_vars

\* C1 witness: after an allocation pass a truck holds two bins it won and another
\* bin went elsewhere because that truck had no room for it
C1_Witness ==
    /\ current_step = 3
    /\ \E tid \in DOMAIN trucks :
        /\ Len(trucks[tid].assigned_bins) >= 2
        /\ \E i \in DOMAIN step_data.auction_results :
            /\ step_data.auction_results[i].truck_id # tid
            /\ \A j \in DOMAIN step_data.auction_results[i].all_bids :
                  step_data.auction_results[i].all_bids[j].truck_id # tid

\* the bins an allocation pass was given and allocated
Allocated(allocations) == {allocations[i].bin_id : i \in DOMAIN allocations}

\* in the round that starts in state st no truck can take bin b: each is over
\* capacity for it or bids +infinity
NoTruckFeasible(st, b, bins_, g) ==
    \A tid \in DOMAIN st.trucks :
        \/ st.truck_loads[tid] + bins_[b].fill_level > st.trucks[tid].capacity
        \/ compute_bid(tid, st.trucks[tid].position, st.truck_routes[tid], b, bins_[b],
                       g, Depot).bid_value = Inf

\* in the round that starts in state st some truck has room for b and a finite bid
SomeTruckFeasible(st, b, bins_, g) ==
    \E tid \in DOMAIN st.trucks :
        /\ st.truck_loads[tid] + bins_[b].fill_level <= st.trucks[tid].capacity
        /\ compute_bid(tid, st.trucks[tid].position, st.truck_routes[tid], b, bins_[b],
                       g, Depot).bid_value.k = "fin"

\* how often x occurs in the list q
Count(q, x) == Cardinality({i \in DOMAIN q : q[i] = x})

\* C2: a bin for which every truck is over capacity or bids +infinity is skipped:
\* no AllocationResult, no change to any truck's assigned_bins, route or working
\* load in its round, and the bins after it that some truck can take are still
\* allocated.
C2_InfeasibleBinSkipped ==
    [][AllocateStep =>
        LET green == step_data.green_bin_ids
            g == to_networkx
            trace == AuctionTrace(<<AuctionStart(trucks)>>, green, bins, g, Depot)
        IN \A i \in DOMAIN green :
            /\ NoTruckFeasible(trace[i], green[i], bins, g) =>
                /\ green[i] \notin Allocated(step_data'.auction_results)
                /\ trace[i + 1] = trace[i]
                /\ \A tid \in DOMAIN trucks :
                      Count(trucks'[tid].assigned_bins, green[i])
                          = Count(trucks[tid].assigned_bins, green[i])
            /\ SomeTruckFeasible(trace[i], green[i], bins, g) =>
                green[i] \in Allocated(step_data'.auction_results)]_vars

\* a node no open road leads to from the depot
CutOff(pos) == ShortestPathLength(to_networkx, Depot, pos) = NoPath

\* C2 witness: an allocation pass skipped a GREEN bin that is cut off from the
\* depot and then allocated a later GREEN bin
C2_Witness ==
    /\ current_step = 3
    /\ \E i, j \in DOMAIN step_data.green_bin_ids :
        /\ i < j
        /\ CutOff(bins[step_data.green_bin_ids[i]].position)
        /\ step_data.green_bin_ids[i] \notin Allocated(step_data.auction_results)
        /\ step_data.green_bin_ids[j] \in Allocated(step_data.auction_results)

\* the GREEN bins of this cycle that the allocation pass skipped
SkippedBins ==
    IF current_step \in {3, 4, 5}
    THEN Ids(step_data.green_bin_ids) \ Allocated(step_data.auction_results)
    ELSE {}

C10_CollectedClearedEachCycle ==
    current_step = 0 => \A b \in DOMAIN bins : ~bins[b].collected

-----------------------------------------------------------------------------
(* The end-to-end scenario: City(grid_size=10, num_bins=5, num_trucks=1) with
   bin 0 forced to fill level 95 and the other bins to 20 *)

ScenarioGridSize == 10
ScenarioBins == 5
ScenarioTruckCapacity == 300
ScenarioBinCapacity == 100
ScenarioFullLevel == 95
ScenarioLowLevel == 20

\* the fill rates of the scenario: the whole values within uniform(0.5, 3.0)
ScenarioRates == 1 .. 3

\* nodes for the bins after bin 0: the first free ones of this list are used
SpareNodes == <<<<9, 9>>, <<9, 0>>, <<0, 9>>, <<5, 5>>, <<4, 4>>>>

\* the positions of the scenario's bins once bin 0 sits at pos0
ScenarioPositions(pos0) ==
    LET free == SelectSeq(SpareNodes, LAMBDA n : n # pos0)
    IN [b \in 0 .. ScenarioBins - 1 |-> IF b = 0 THEN pos0 ELSE free[b]]

InitScenario ==
    /\ grid_size = ScenarioGridSize
    /\ closed = {}
    /\ closed_roads = <<>>
    /\ time_elapsed = 0
    /\ \E pos0 \in Nodes(ScenarioGridSize) \ {Depot} :
       \E rate \in ScenarioRates :
          bins = [b \in 0 .. ScenarioBins - 1 |->
                    Bin(ScenarioPositions(pos0)[b], ScenarioBinCapacity,
                        IF b = 0 THEN ScenarioFullLevel ELSE ScenarioLowLevel, rate)]
    /\ trucks = [t \in {0} |-> Truck(Depot, ScenarioTruckCapacity)]
    /\ current_step = 0
    /\ step_data = EmptyStepData
    /\ routes = <<>>
    /\ kpi_bins_collected = 0
    /\ call = NoCall

\* the grid stays open: the steps of the cycle and nothing else
NextScenario ==
    \/ Predict
    \/ Reason
    \/ Allocate
    \/ PlanExecute
    \/ Adapt
    \/ NewCycle

SpecScenario == InitScenario /\ [][NextScenario]_vars

RoundTrip == 2 * Manhattan(Depot, bins[0].position)

\* C8: in the scenario's first cycle Reasoning makes bin 0 GREEN and the other bins
\* GREY, Allocation gives bin 0 to the truck for a winning bid of twice the
\* Manhattan distance from the depot, Routing returns a path of that many edges,
\* and after Execute bin 0 is empty and collected.
C8_EndToEnd ==
    time_elapsed = 0 =>
        /\ current_step >= 2 =>
              /\ Len(step_data.reasoning_results) = ScenarioBins
              /\ \A i \in DOMAIN step_data.reasoning_results :
                    LET r == step_data.reasoning_results[i]
                    IN r.status = IF r.bin_id = 0 THEN "GREEN" ELSE "GREY"
        /\ current_step >= 3 =>
              /\ Len(step_data.auction_results) = 1
              /\ step_data.auction_results[1].bin_id = 0
              /\ step_data.auction_results[1].truck_id = 0
              /\ step_data.auction_results[1].winning_bid = Fin(RoundTrip)
        /\ current_step >= 4 =>
              /\ Len(routes[0]) = RoundTrip + 1
              /\ routes[0][1] = Depot
              /\ routes[0][Len(routes[0])] = Depot
              /\ \E i \in DOMAIN routes[0] : routes[0][i] = bins[0].position
              /\ bins[0].fill_level = 0
              /\ bins[0].collected

\* C8 witness: the scenario's first cycle has executed with bin 0 away from the
\* depot's row and column
C8_Witness ==
    /\ grid_size = ScenarioGridSize
    /\ time_elapsed = 0
    /\ current_step = 4
    /\ bins[0].position[1] > 0
    /\ bins[0].position[2] > 0
    /\ bins[0].collected
    /\ \A b \in DOMAIN bins \ {0} : bins[b].fill_level = ScenarioLowLevel

-----------------------------------------------------------------------------
(* A city in which an assignment outlives its cycle: City(grid_size=3, num_bins=5,
   num_trucks=2, truck_capacity=200, bin_capacity=110) *)

CarryGridSize == 3
CarryBins == 5
CarryTrucks == 2
CarryTruckCapacity == 200
CarryBinCapacity == 110

\* fill levels City.__init__ can draw for the five critical bins
CarryFills == <<104, 97, 97, 97, 88>>

\* the corners of the grid other than the depot
Corners(n) == {<<0, n - 1>>, <<n - 1, 0>>, <<n - 1, n - 1>>}

\* the nodes of the middle row, for the bins after bin 0
MiddleNodes == <<<<1, 0>>, <<1, 1>>, <<1, 2>>, <<0, 1>>>>

InitCarry ==
    /\ grid_size = CarryGridSize
    /\ closed = {}
    /\ closed_roads = <<>>
    /\ time_elapsed = 0
    /\ \E pos0 \in Corners(CarryGridSize) :
          bins = [b \in 0 .. CarryBins - 1 |->
                    Bin(IF b = 0 THEN pos0 ELSE MiddleNodes[b], CarryBinCapacity,
                        CarryFills[b + 1], FillRate)]
    /\ trucks = [t \in 0 .. CarryTrucks - 1 |-> Truck(Depot, CarryTruckCapacity)]
    /\ current_step = 0
    /\ step_data = EmptyStepData
    /\ routes = <<>>
    /\ kpi_bins_collected = 0
    /\ call = NoCall

SpecCarry == InitCarry /\ [][Next]_vars

-----------------------------------------------------------------------------
(* The Execute phase *)

ExecuteStep == current_step = 3 /\ current_step' = 4

\* C11: after Execute every bin that was in some truck's assigned_bins is empty and
\* collected, and every truck that had assigned bins has none left, carries no load
\* and stands on the last node of its planned path.
C11_ExecuteClearsAssignments ==
    [][ExecuteStep =>
        \A tid \in DOMAIN trucks :
            trucks[tid].assigned_bins # <<>> =>
                /\ \A b \in Ids(trucks[tid].assigned_bins) :
                      bins'[b].fill_level = 0 /\ bins'[b].collected
                /\ trucks'[tid].assigned_bins = <<>>
                /\ trucks'[tid].current_load = 0
                /\ routes'[tid] # <<>>
                /\ trucks'[tid].position = routes'[tid][Len(routes'[tid])]]_vars

-----------------------------------------------------------------------------
(* The city of modules/city.py: WasteBin, Truck and City *)
WasteSteps == 2        \* time steps of the city of modules/city.py in one run
WasteBins == 2         \* bins of the city of modules/city.py

\* City.trigger_waste_spike: the default spike_amount
DefaultSpike == 30

\* WasteBin: the dataclass fields (fill levels in whole numbers)
WasteBin(position, fill_level, fill_rate, capacity) ==
    [position |-> position, fill_level |-> fill_level, fill_rate |-> fill_rate,
     capacity |-> capacity, collected |-> FALSE]

\* the Truck of modules/city.py, created at the depot
CityTruck(capacity) ==
    [position |-> Depot, depot |-> Depot, capacity |-> capacity, current_load |-> 0,
     assigned_bins |-> <<>>, route |-> <<>>]

\* min(100.0, level)
AtMostHundred(level) == IF level < 100 THEN level ELSE 100

\* WasteBin.update(time_steps)
WasteBin_update(b, time_steps) ==
    IF ~b.collected
    THEN [b EXCEPT !.fill_level = AtMostHundred(b.fill_level + b.fill_rate * time_steps)]
    ELSE b

\* WasteBin.collect()
WasteBin_collect(b) == [b EXCEPT !.fill_level = 0, !.collected = TRUE]

\* Truck.can_collect(amount)
can_collect(truck, amount) == truck.current_load + amount <= truck.capacity

\* the variables of the app loop, which the city of modules/city.py does not have
NoApp ==
    /\ current_step = 0
    /\ step_data = EmptyStepData
    /\ routes = <<>>
    /\ kpi_bins_collected = 0

AppVars == <<current_step, step_data, routes, kpi_bins_collected>>

\* the capacities a WasteBin is built with: the default 100.0, a smaller and a larger one
WasteBinCapacities == {50, 100, 150}

\* the initial fill levels (within uniform(10, 60)) and fill rates (within uniform(0.5, 3.0))
WasteBinFills == {10, 40, 60}
WasteBinRates == {1, 3}

InitWaste ==
    /\ grid_size = GridSize
    /\ closed = {}
    /\ closed_roads = <<>>
    /\ time_elapsed = 0
    /\ \E capacity \in WasteBinCapacities :
       \E fill \in [0 .. WasteBins - 1 -> {f \in WasteBinFills : f <= capacity}] :
       \E rate \in WasteBinRates :
          bins = [i \in 0 .. WasteBins - 1 |->
                    WasteBin(<<0, 1>>, fill[i], rate, capacity)]
    /\ trucks = [t \in {0} |-> CityTruck(100)]
    /\ NoApp
    /\ call = NoCall

\* City.step(time_steps) of modules/city.py
CityModuleStep ==
    /\ time_elapsed < WasteSteps
    /\ \E time_steps \in 1 .. 2 :
        /\ time_elapsed' = time_elapsed + time_steps
        /\ bins' = [i \in DOMAIN bins |-> WasteBin_update(bins[i], time_steps)]
        /\ call' = [op |-> "step", time_steps |-> time_steps]
    /\ UNCHANGED <<grid_size, closed, closed_roads, trucks>>
    /\ UNCHANGED AppVars

\* City.trigger_waste_spike(bin_id, spike_amount)
trigger_waste_spike ==
    /\ \E bin_id \in 0 .. WasteBins, spike_amount \in {DefaultSpike} :
        /\ bins' = IF bin_id \in DOMAIN bins
                   THEN [bins EXCEPT ![bin_id].fill_level =
                            AtMostHundred(bins[bin_id].fill_level + spike_amount)]
                   ELSE bins
        /\ call' = [op |-> "trigger_waste_spike", bin_id |-> bin_id,
                    result |-> bin_id \in DOMAIN bins]
    /\ UNCHANGED <<grid_size, closed, closed_roads, time_elapsed, trucks>>
    /\ UNCHANGED AppVars

\* City.collect_bin(truck_id, bin_id)
collect_bin ==
    /\ \E truck_id \in DOMAIN trucks, bin_id \in DOMAIN bins :
        IF can_collect(trucks[truck_id], bins[bin_id].fill_level)
        THEN /\ bins' = [bins EXCEPT ![bin_id] = WasteBin_collect(bins[bin_id])]
             /\ trucks' = [trucks EXCEPT ![truck_id].current_load =
                              @ + bins[bin_id].fill_level]
             /\ call' = [op |-> "collect_bin", bin_id |-> bin_id, result |-> TRUE]
        ELSE /\ call' = [op |-> "collect_bin", bin_id |-> bin_id, result |-> FALSE]
             /\ UNCHANGED <<bins, trucks>>
    /\ UNCHANGED <<grid_size, closed, closed_roads, time_elapsed>>
    /\ UNCHANGED AppVars

\* City.reset_collection_cycle()
reset_collection_cycle ==
    /\ \E i \in DOMAIN bins : bins[i].collected
    /\ bins' = [i \in DOMAIN bins |-> [bins[i] EXCEPT !.collected = FALSE]]
    /\ trucks' = [t \in DOMAIN trucks |->
                    [trucks[t] EXCEPT !.assigned_bins = <<>>, !.route = <<>>]]
    /\ call' = [op |-> "reset_collection_cycle"]
    /\ UNCHANGED <<grid_size, closed, closed_roads, time_elapsed>>
    /\ UNCHANGED AppVars

\* Truck.empty()
Truck_empty ==
    /\ \E truck_id \in DOMAIN trucks :
        /\ trucks[truck_id].current_load > 0
        /\ trucks' = [trucks EXCEPT ![truck_id].current_load = 0]
        /\ call' = [op |-> "empty", result |-> trucks[truck_id].current_load]
    /\ UNCHANGED <<grid_size, closed, closed_roads, time_elapsed, bins>>
    /\ UNCHANGED AppVars

NextWaste ==
    \/ CityModuleStep
    \/ trigger_waste_spike
    \/ collect_bin
    \/ reset_collection_cycle
    \/ Truck_empty

SpecWaste == InitWaste /\ [][NextWaste]_vars

-----------------------------------------------------------------------------
(* Direct calls of AStarPlanner.plan_route *)
MaxWaypoints == 2      \* waypoints in direct calls of plan_route

\* the waypoint lists tried: up to MaxWaypoints nodes, repeats included
WaypointLists(n) ==
    UNION {[1 .. k -> Nodes(n)] : k \in 0 .. MaxWaypoints}

InitRoute ==
    /\ NoCity(RouteGrid)
    /\ \E g \in PlannerGraphs(RouteGrid, RouteClosures) :
       \E start, depot \in Nodes(RouteGrid) :
       \E waypoints \in WaypointLists(RouteGrid) :
          call = [op |-> "plan_route", graph |-> g, start |-> start,
                  waypoints |-> waypoints, depot |-> depot, done |-> FALSE]

CallPlanRoute ==
    /\ call.op = "plan_route"
    /\ ~call.done
    /\ call' = [call EXCEPT !.done = TRUE] @@
               [result |-> plan_route(call.graph, 0, call.start, call.waypoints,
                                      call.depot)]
    /\ UNCHANGED CityVars

NextRoute == CallPlanRoute

SpecRoute == InitRoute /\ [][NextRoute]_vars

RouteReturned == call.op = "plan_route" /\ call.done

\* every two of the points are joined by a route over open edges of g
MutuallyReachable(g, points) ==
    \A a, b \in points :
        ShortestPathLength(NxGraph(g.size, OpenEdges(g), {}), a, b) # NoPath

\* path visits the waypoints in their order, from position from on
RECURSIVE VisitsInOrder(_, _, _)
VisitsInOrder(path, waypoints, from) ==
    \/ waypoints = <<>>
    \/ \E i \in from .. Len(path) :
          /\ path[i] = Head(waypoints)
          /\ VisitsInOrder(path, Tail(waypoints), i)

\* the number of times x occurs in the list q
Occurrences(q, x) == Cardinality({i \in DOMAIN q : q[i] = x})

\* C13: when start, waypoints and depot are mutually reachable, plan_route returns a
\* path that begins at start, passes every given waypoint in the order of
\* RouteResult.waypoints, ends at the depot, and only moves along open edges.
C13_RouteVisitsAll ==
    RouteReturned =>
        (MutuallyReachable(call.graph,
                           {call.start, call.depot} \cup Ids(call.waypoints)) =>
            /\ call.result.path # <<>>
            /\ call.result.path[1] = call.start
            /\ call.result.path[Len(call.result.path)] = call.depot
            /\ \A x \in Nodes(RouteGrid) :
                  Occurrences(call.result.waypoints, x) = Occurrences(call.waypoints, x)
            /\ VisitsInOrder(call.result.path, call.result.waypoints, 1)
            /\ Drivable(call.graph, call.result.path))

\* C13 witness: two distinct waypoints away from start, reordered by the planner, on a
\* graph with a closed edge that the path had to go round
C13_Witness ==
    /\ RouteReturned
    /\ MutuallyReachable(call.graph, {call.start, call.depot} \cup Ids(call.waypoints))
    /\ Len(call.waypoints) = 2
    /\ call.waypoints[1] # call.waypoints[2]
    /\ call.start \notin Ids(call.waypoints)
    /\ call.result.waypoints # call.waypoints
    /\ call.graph.closed # {}
    /\ PathEdges(call.result.path) >
          Manhattan(call.start, call.result.waypoints[1])
          + Manhattan(call.result.waypoints[1], call.result.waypoints[2])
          + Manhattan(call.result.waypoints[2], call.depot)

-----------------------------------------------------------------------------
(* Direct calls of predict_eta *)
EtaSpan == 20          \* half percents below 100 among the fill levels tried
EtaRates == 3          \* the largest fill rate tried

\* the fill levels tried: 0, and every half percent from 100 - EtaSpan / 2 to 101
EtaLevels == {Rat(0, 1)} \cup {Rat(n, 2) : n \in 200 - EtaSpan .. 202}

InitEta ==
    /\ NoCity(GridSize)
    /\ \E fill_level, other_level \in EtaLevels :
       \E fill_rate \in -1 .. EtaRates :
       \E minutes_per_step \in {1, MINUTES_PER_STEP} :
          call = [op |-> "predict_eta", fill_level |-> fill_level,
                  other_level |-> other_level, fill_rate |-> fill_rate,
                  minutes_per_step |-> minutes_per_step, done |-> FALSE]

\* two calls with the same rate and step length
CallEta ==
    /\ call.op = "predict_eta"
    /\ ~call.done
    /\ call' = [call EXCEPT !.done = TRUE] @@
               [result |-> predict_eta(call.fill_level, call.fill_rate,
                                       call.minutes_per_step),
                other_result |-> predict_eta(call.other_level, call.fill_rate,
                                             call.minutes_per_step)]
    /\ UNCHANGED CityVars

NextEta == CallEta

SpecEta == InitEta /\ [][NextEta]_vars

EtaReturned == call.op = "predict_eta" /\ call.done

\* a < b for two numbers
RatLess(a, b) == ~RatLeq(b, a)

\* C14: predict_eta gives 0 for a fill level of 100 or more whatever the rate, +inf for
\* a lower level with a rate of zero or less, and otherwise
\* ((100 - fill_level) / fill_rate) * minutes_per_step; with the rate and the step
\* length fixed and positive, the higher of two levels in 0..100 has the smaller ETA.
C14_EtaLinear ==
    EtaReturned =>
        /\ RatLeq(Rat(100, 1), call.fill_level) => call.result = Rat(0, 1)
        /\ RatLess(call.fill_level, Rat(100, 1)) /\ call.fill_rate <= 0 =>
              call.result = RatInf
        /\ RatLess(call.fill_level, Rat(100, 1)) /\ call.fill_rate > 0 =>
              /\ call.result.k = "fin"
              /\ call.result.d > 0
              /\ call.result.n * call.fill_rate * call.fill_level.d =
                    (100 * call.fill_level.d - call.fill_level.n)
                        * call.minutes_per_step * call.result.d
        /\ (/\ call.fill_rate > 0
            /\ RatLess(call.fill_level, call.other_level)
            /\ RatLeq(call.other_level, Rat(100, 1))) =>
              RatLess(call.other_result, call.result)

\* C14 witness: two levels below 100 and a positive rate, the ETAs finite and ordered
C14_Witness ==
    /\ EtaReturned
    /\ call.fill_rate > 1
    /\ RatLess(call.fill_level, call.other_level)
    /\ RatLess(call.other_level, Rat(100, 1))
    /\ call.fill_level.d = 2 /\ call.fill_level.n % 2 = 1
    /\ RatLess(Rat(0, 1), call.other_result)
    /\ RatLess(call.other_result, call.result)
    /\ call.result.k = "fin"

-----------------------------------------------------------------------------
(* Road closures of modules/city.py: close_road, open_road, get_active_graph *)
RoadCalls == 3         \* entries of closed_roads of the city of modules/city.py

\* x in q, for a list q
InList(q, x) == \E i \in DOMAIN q : q[i] = x

InitRoads ==
    /\ grid_size = GridSize
    /\ closed = {}
    /\ closed_roads = <<>>
    /\ time_elapsed = 0
    /\ bins = <<>>
    /\ trucks = <<>>
    /\ NoApp
    /\ call = NoCall

\* City.close_road(node1, node2)
close_road ==
    /\ Len(closed_roads) < RoadCalls
    /\ \E node1, node2 \in Nodes(grid_size) :
        IF {node1, node2} \in GridEdges(grid_size)
        THEN /\ closed' = closed \cup {{node1, node2}}
             /\ closed_roads' = Append(closed_roads, <<node1, node2>>)
             /\ call' = [op |-> "close_road", node1 |-> node1, node2 |-> node2,
                         result |-> TRUE]
        ELSE /\ call' = [op |-> "close_road", node1 |-> node1, node2 |-> node2,
                         result |-> FALSE]
             /\ UNCHANGED <<closed, closed_roads>>
    /\ UNCHANGED <<grid_size, time_elapsed, bins, trucks>>
    /\ UNCHANGED AppVars

\* City.open_road(node1, node2)
open_road ==
    /\ \E node1, node2 \in Nodes(grid_size) :
        IF {node1, node2} \in GridEdges(grid_size)
        THEN /\ closed' = closed \ {{node1, node2}}
             /\ closed_roads' =
                    IF InList(closed_roads, <<node1, node2>>)
                    THEN RemoveFirst(closed_roads, <<node1, node2>>)
                    ELSE IF InList(closed_roads, <<node2, node1>>)
                    THEN RemoveFirst(closed_roads, <<node2, node1>>)
                    ELSE closed_roads
             /\ call' = [op |-> "open_road", node1 |-> node1, node2 |-> node2,
                         result |-> TRUE]
        ELSE /\ call' = [op |-> "open_road", node1 |-> node1, node2 |-> node2,
                         result |-> FALSE]
             /\ UNCHANGED <<closed, closed_roads>>
    /\ UNCHANGED <<grid_size, time_elapsed, bins, trucks>>
    /\ UNCHANGED AppVars

\* City.get_active_graph(): a copy of the graph without the edges listed in closed_roads
get_active_graph ==
    NxGraph(grid_size,
            GridEdges(grid_size) \
                {{closed_roads[i][1], closed_roads[i][2]} : i \in DOMAIN closed_roads},
            closed \
                {{closed_roads[i][1], closed_roads[i][2]} : i \in DOMAIN closed_roads})

NextRoads ==
    \/ close_road
    \/ open_road

SpecRoads == InitRoads /\ [][NextRoads]_vars

\* C15: after any calls of close_road and open_road the active graph has exactly the
\* edges whose closed flag is false, and after open_road(a, b) returned True it has
\* the edge a-b.
C15_ActiveGraphMatchesFlags ==
    /\ \A e \in GridEdges(grid_size) : e \in get_active_graph.edges <=> e \notin closed
    /\ (call.op = "open_road" /\ call.result) =>
          {call.node1, call.node2} \in get_active_graph.edges

-----------------------------------------------------------------------------
(* Road closure events of the step-driven city *)
EventStep == Len(closed_roads') = Len(closed_roads) + 1

\* C16: every call of trigger_random_event leaves the to_networkx() view with strictly
\* fewer edges than before, adds exactly one entry to closed_roads, and closed_roads
\* holds one entry per closed edge.
C16_EventRemovesAnEdge ==
    [][EventStep =>
        /\ Cardinality(to_networkx'.edges) < Cardinality(to_networkx.edges)
        /\ Len(closed_roads') = Len(closed_roads) + 1
        /\ Len(closed_roads') = Cardinality(closed')]_vars

-----------------------------------------------------------------------------
(* The HVAC monitoring agent: YSMAI_Agent of S12345_KhobaitSimran/agent.py.
   Times are in half seconds. *)
MaxUpdates == 4        \* calls of update in one run
MaxGap == 3            \* the longest time between two calls of update, in half seconds

THRESHOLD_HIGH == 85
THRESHOLD_LOW == 50
DEBOUNCE == 3          \* debounce_sec = 1.5

STATE_NORMAL == "NORMAL"
STATE_ALERT_HIGH == "ALERT_HIGH"
STATE_ALERT_LOW == "ALERT_LOW"

\* Python's None, and a value that is not None
None == <<>>
Some(x) == <<x>>

\* YSMAI_Agent.__init__ at time now
YSMAI_Agent(threshold_high, threshold_low, debounce_sec, now) ==
    [threshold_high |-> threshold_high, threshold_low |-> threshold_low,
     debounce_sec |-> debounce_sec,
     current_state |-> STATE_NORMAL, last_state |-> STATE_NORMAL,
     state_timestamp |-> now, last_transition_time |-> now,
     pending_state |-> None, pending_timestamp |-> None]

_compute_desired_state(self, temp) ==
    IF temp > self.threshold_high THEN STATE_ALERT_HIGH
    ELSE IF temp < self.threshold_low THEN STATE_ALERT_LOW
    ELSE STATE_NORMAL

\* the slip: no message for the low alert
_generate_alert_messageHighOnly(self, state) ==
    IF state = STATE_ALERT_HIGH THEN Some("High temperature alert")
    ELSE None

_generate_alert_message(self, state) ==
    IF state = STATE_ALERT_HIGH THEN Some("High temperature alert")
    ELSE IF state = STATE_ALERT_LOW THEN Some("Low temperature alert")
    ELSE None

\* the agent after update(temp, timestamp_unix), given the desired state
UpdateSelf(self, desired_state, timestamp_unix) ==
    IF desired_state = self.current_state
    THEN [self EXCEPT !.last_state = self.current_state,
                      !.pending_state = None, !.pending_timestamp = None]
    ELSE IF self.pending_state = None
    THEN [self EXCEPT !.last_state = self.current_state,
                      !.pending_state = Some(desired_state),
                      !.pending_timestamp = Some(timestamp_unix)]
    ELSE IF timestamp_unix - self.pending_timestamp[1] >= self.debounce_sec
    THEN [self EXCEPT !.last_state = self.current_state,
                      !.current_state = desired_state,
                      !.state_timestamp = timestamp_unix,
                      !.last_transition_time = timestamp_unix,
                      !.pending_state = None, !.pending_timestamp = None]
    ELSE [self EXCEPT !.last_state = self.current_state]

\* state_changed of update(temp, timestamp_unix)
UpdateChanged(self, desired_state, timestamp_unix) ==
    /\ desired_state # self.current_state
    /\ self.pending_state # None
    /\ timestamp_unix - self.pending_timestamp[1] >= self.debounce_sec

\* the dictionary update(temp, timestamp_unix) returns
UpdateResult(self, desired_state, timestamp_unix) ==
    [state |-> UpdateSelf(self, desired_state, timestamp_unix).current_state,
     changed |-> UpdateChanged(self, desired_state, timestamp_unix),
     alert_message |->
        IF UpdateChanged(self, desired_state, timestamp_unix)
        THEN _generate_alert_message(self, desired_state)
        ELSE None,
     timestamp |-> timestamp_unix]

get_state(self) == self.current_state

get_timestamp(self) == self.last_transition_time

\* the temperatures read: below, at, between, at and above the thresholds
Temperatures ==
    {THRESHOLD_LOW - 5, THRESHOLD_LOW, 70, THRESHOLD_HIGH, THRESHOLD_HIGH + 5}

InitAgent ==
    /\ NoCity(GridSize)
    /\ call = [op |-> "YSMAI_Agent",
               self |-> YSMAI_Agent(THRESHOLD_HIGH, THRESHOLD_LOW, DEBOUNCE, 0),
               now |-> 0, updates |-> <<>>]

\* one call of update, at the time of the last call or later; updates logs the
\* reading and the dictionary returned
update ==
    /\ Len(call.updates) < MaxUpdates
    /\ \E temp \in Temperatures, timestamp_unix \in call.now .. call.now + MaxGap :
          call' = [op |-> "update",
                   self |-> UpdateSelf(call.self,
                                       _compute_desired_state(call.self, temp),
                                       timestamp_unix),
                   now |-> timestamp_unix,
                   updates |-> Append(call.updates,
                       [temp |-> temp,
                        result |-> UpdateResult(call.self,
                                       _compute_desired_state(call.self, temp),
                                       timestamp_unix)])]
    /\ UNCHANGED CityVars

NextAgent == update

SpecAgent == InitAgent /\ [][NextAgent]_vars

\* the update calls whose reading asked for state
Asking(state) ==
    {i \in DOMAIN call.updates :
        _compute_desired_state(call.self, call.updates[i].temp) = state}

\* C17: the agent starts in NORMAL, and an update at time t changes the state to S only
\* if every update from one at some time t0 <= t - debounce_sec up to this one had a
\* temperature asking for S.
C17_DebouncedTransition ==
    /\ call.op = "YSMAI_Agent" => get_state(call.self) = STATE_NORMAL
    /\ \A i \in DOMAIN call.updates :
          call.updates[i].result.changed =>
              \E k \in 1 .. i :
                  /\ call.updates[k].result.timestamp
                        <= call.updates[i].result.timestamp - DEBOUNCE
                  /\ k .. i \subseteq Asking(call.updates[i].result.state)

\* the update calls that returned changed == True
ChangedCalls == {i \in DOMAIN call.updates : call.updates[i].result.changed}

\* the last of a non-empty set of calls
LastOf(calls) == CHOOSE i \in calls : \A j \in calls : j <= i

\* C18: an update returns an alert message only when it returns changed == True, every
\* change into ALERT_HIGH or ALERT_LOW carries a message, and get_timestamp() is the
\* timestamp of the latest update that returned changed == True.
C18_AlertOnlyOnChange ==
    /\ \A i \in DOMAIN call.updates :
          /\ call.updates[i].result.alert_message # None =>
                call.updates[i].result.changed
          /\ (/\ call.updates[i].result.changed
              /\ call.updates[i].result.state \in {STATE_ALERT_HIGH, STATE_ALERT_LOW}) =>
                call.updates[i].result.alert_message # None
    /\ ChangedCalls # {} =>
          get_timestamp(call.self) = call.updates[LastOf(ChangedCalls)].result.timestamp

\* C18 witness: a change into ALERT_LOW that carried a message, then a later update in
\* the same state without one, the agent still reporting the time of the change
C18_Witness ==
    /\ Len(call.updates) >= 3
    /\ ChangedCalls = {Len(call.updates) - 1}
    /\ call.updates[Len(call.updates) - 1].result.state = STATE_ALERT_LOW
    /\ call.updates[Len(call.updates) - 1].result.alert_message # None
    /\ call.updates[Len(call.updates)].result.alert_message = None
    /\ call.updates[Len(call.updates)].result.timestamp > get_timestamp(call.self)
    /\ get_timestamp(call.self) > 0

-----------------------------------------------------------------------------
(* The task scheduler: Scheduler of S12345_KhobaitSimran/scheduler.py, on heapq.
   A heap is a list; position p of the Python list is element p + 1 here. *)
MaxTasks == 4          \* calls of add_task in one run
MaxPops == 2           \* calls of pop_due_tasks in one run
MaxDue == 2            \* the latest due time and the latest time of a pop

\* the slip: entries ordered by due_time alone, without the counter
TupleLessDueOnly(a, b) == a[1] < b[1]

\* a < b for two heap entries (due_time, counter, task_id, payload); counters differ
TupleLess(a, b) == a[1] < b[1] \/ (a[1] = b[1] /\ a[2] < b[2])

\* heapq._siftdown(heap, startpos, pos), newitem being the entry on its way up
RECURSIVE SiftDown(_, _, _, _)
SiftDown(heap, startpos, pos, newitem) ==
    IF pos > startpos /\ TupleLess(newitem, heap[(pos - 1) \div 2 + 1])
    THEN SiftDown([heap EXCEPT ![pos + 1] = heap[(pos - 1) \div 2 + 1]],
                  startpos, (pos - 1) \div 2, newitem)
    ELSE [heap EXCEPT ![pos + 1] = newitem]

\* the child heapq._siftup moves up: the right one unless the left one is smaller
SmallerChild(heap, childpos) ==
    IF childpos + 1 < Len(heap) /\ ~TupleLess(heap[childpos + 1], heap[childpos + 2])
    THEN childpos + 1
    ELSE childpos

\* heapq._siftup(heap, pos): the smaller child moves up until a leaf is reached, then
\* newitem is sifted down from there
RECURSIVE SiftUp(_, _, _, _)
SiftUp(heap, startpos, pos, newitem) ==
    IF 2 * pos + 1 < Len(heap)
    THEN SiftUp([heap EXCEPT ![pos + 1] = heap[SmallerChild(heap, 2 * pos + 1) + 1]],
                startpos, SmallerChild(heap, 2 * pos + 1), newitem)
    ELSE SiftDown([heap EXCEPT ![pos + 1] = newitem], startpos, pos, newitem)

\* heapq.heappush(heap, item)
heappush(heap, item) == SiftDown(Append(heap, item), 0, Len(heap), item)

\* the heap heapq.heappop(heap) leaves; the entry it returns is heap[1]
heappop(heap) ==
    IF Len(heap) = 1 THEN <<>>
    ELSE SiftUp([i \in 1 .. Len(heap) - 1 |-> IF i = 1 THEN heap[Len(heap)] ELSE heap[i]],
                0, 0, heap[Len(heap)])

\* Scheduler.__init__
Scheduler == [_heap |-> <<>>, _task_counter |-> 0]

\* the scheduler after add_task(task_id, due_time_unix, payload)
AddTask(self, task_id, due_time_unix, payload) ==
    [_heap |-> heappush(self._heap,
                        <<due_time_unix, self._task_counter + 1, task_id, payload>>),
     _task_counter |-> self._task_counter + 1]

\* the slip: a task due exactly now is left for later
IsDueStrict(due_time, current_time_unix) == due_time < current_time_unix

\* the test of the loop of pop_due_tasks
IsDue(due_time, current_time_unix) == due_time <= current_time_unix

\* the loop of pop_due_tasks: the heap it leaves and the list it returns
RECURSIVE PopLoop(_, _, _)
PopLoop(heap, current_time_unix, due_tasks) ==
    IF heap # <<>> /\ IsDue(heap[1][1], current_time_unix)
    THEN PopLoop(heappop(heap), current_time_unix,
                 Append(due_tasks, [task_id |-> heap[1][3], payload |-> heap[1][4],
                                    due_time |-> heap[1][1]]))
    ELSE [_heap |-> heap, due_tasks |-> due_tasks]

Payloads == {"a", "b"}

\* added and returned log the calls: the tasks added, by task id, and the ids of the
\* tasks returned so far
InitScheduler ==
    /\ NoCity(GridSize)
    /\ call = [op |-> "Scheduler", self |-> Scheduler, added |-> <<>>,
               returned |-> {}, pops |-> 0]

\* add_task with a fresh task id
add_task ==
    /\ Len(call.added) < MaxTasks
    /\ \E due_time_unix \in 0 .. MaxDue, payload \in Payloads :
          call' = [op |-> "add_task",
                   self |-> AddTask(call.self, Len(call.added) + 1, due_time_unix, payload),
                   added |-> Append(call.added, [task_id |-> Len(call.added) + 1,
                                                 payload |-> payload,
                                                 due_time |-> due_time_unix]),
                   returned |-> call.returned, pops |-> call.pops]
    /\ UNCHANGED CityVars

pop_due_tasks ==
    /\ call.pops < MaxPops
    /\ \E current_time_unix \in 0 .. MaxDue :
          call' = [op |-> "pop_due_tasks",
                   self |-> [call.self EXCEPT
                                !._heap = PopLoop(call.self._heap, current_time_unix,
                                                  <<>>)._heap],
                   current_time_unix |-> current_time_unix,
                   result |-> PopLoop(call.self._heap, current_time_unix, <<>>).due_tasks,
                   added |-> call.added,
                   returned |-> call.returned \cup
                       {t.task_id : t \in Ids(PopLoop(call.self._heap, current_time_unix,
                                                       <<>>).due_tasks)},
                   pops |-> call.pops + 1]
    /\ UNCHANGED CityVars

NextScheduler ==
    \/ add_task
    \/ pop_due_tasks

SpecScheduler == InitScheduler /\ [][NextScheduler]_vars

\* C19: pop_due_tasks returns the due tasks in non-decreasing order of due_time, and
\* tasks with the same due_time in the order they were added, whatever the order of
\* the add_task calls.
C19_PopsInDueOrder ==
    call.op = "pop_due_tasks" =>
        \A i, j \in DOMAIN call.result :
            i < j =>
                \/ call.result[i].due_time < call.result[j].due_time
                \/ /\ call.result[i].due_time = call.result[j].due_time
                   /\ call.result[i].task_id < call.result[j].task_id

\* C19 witness: tasks added latest-first come back earliest-first, two of them with the
\* same due time in the order they were added
C19_Witness ==
    /\ call.op = "pop_due_tasks"
    /\ Len(call.result) >= 3
    /\ call.added[1].due_time > call.added[Len(call.added)].due_time
    /\ call.result[1].task_id > call.result[Len(call.result)].task_id
    /\ \E i \in 1 .. Len(call.result) - 1 :
          call.result[i].due_time = call.result[i + 1].due_time

\* the tasks pending in a scheduler, as {task_id, payload, due_time} records
Pending(self) ==
    {[task_id |-> self._heap[i][3], payload |-> self._heap[i][4],
      due_time |-> self._heap[i][1]] : i \in DOMAIN self._heap}

PopStep == call'.op = "pop_due_tasks"

\* C20: a call pop_due_tasks(now) returns exactly the pending tasks with due_time <= now,
\* each once and none that an earlier call returned, and removes them; the tasks with
\* due_time > now stay pending; every task pending or returned is as it was added.
C20_PopsExactlyTheDue ==
    [][PopStep =>
        /\ Ids(call'.result) =
              {t \in Pending(call.self) : t.due_time <= call'.current_time_unix}
        /\ Cardinality(Ids(call'.result)) = Len(call'.result)
        /\ \A t \in Ids(call'.result) : t.task_id \notin call.returned
        /\ Pending(call'.self) =
              {t \in Pending(call.self) : t.due_time > call'.current_time_unix}
        /\ Cardinality(Pending(call'.self)) = Len(call'.self._heap)
        /\ \A t \in Ids(call'.result) \cup Pending(call'.self) :
              t = call.added[t.task_id]
        /\ {t.task_id : t \in Pending(call'.self)} \cup call'.returned =
              DOMAIN call.added]_vars

\* C20 witness: after an earlier pop returned some tasks, a second pop returns two or
\* more others, one of them due exactly now, and leaves a later task pending
C20_Witness ==
    /\ call.op = "pop_due_tasks"
    /\ call.pops = 2
    /\ Len(call.result) >= 2
    /\ Cardinality(call.returned) > Len(call.result)
    /\ \E t \in Ids(call.result) : t.due_time = call.current_time_unix
    /\ Pending(call.self) # {}

-----------------------------------------------------------------------------
(* The bid as a marginal cost *)

\* the length of the shortest tour through the stops in order, every leg having a path
RECURSIVE TourLength(_, _)
TourLength(g, stops) ==
    IF Len(stops) < 2 THEN 0
    ELSE ShortestPathLength(g, stops[1], stops[2]).v + TourLength(g, Tail(stops))

\* the least number of a non-empty set of numbers
Least(S) == CHOOSE x \in S : \A y \in S : x <= y

\* C21: with every leg reachable, the bid is the least cost, over all insertion
\* positions, of the route with the bin inserted, minus the cost of the current route,
\* cost being the shortest-path length from the truck position through the waypoints in
\* order to the depot; for an empty route that cost is the distance to the depot.
C21_BidIsMarginalCost ==
    (BidReturned /\ ~SomeLegCutOff(call.graph,
                        {call.truck_position, call.bin_position, Depot} \cup Ids(call.route)))
        => call.result.bid_value =
              Fin(Least({TourLength(call.graph,
                             <<call.truck_position>>
                             \o InsertAt(call.route, i, call.bin_position)
                             \o <<Depot>>) : i \in 0 .. Len(call.route)})
                  - TourLength(call.graph,
                               <<call.truck_position>> \o call.route \o <<Depot>>))

-----------------------------------------------------------------------------
(* The winner of an auction round *)

\* C22: in every round of an allocation pass the bids come from the trucks in the order
\* of the trucks map, the winner's bid is finite and no finite bid of the round is lower,
\* and of the trucks that bid the winning value the winner is the first.
C22_LowestFiniteBidWins ==
    [][AllocateStep =>
        \A k \in DOMAIN step_data'.auction_results :
            /\ step_data'.auction_results[k].winning_bid.k = "fin"
            /\ \A i, j \in DOMAIN step_data'.auction_results[k].all_bids :
                  i < j => step_data'.auction_results[k].all_bids[i].truck_id
                              < step_data'.auction_results[k].all_bids[j].truck_id
            /\ \A j \in DOMAIN step_data'.auction_results[k].all_bids :
                  /\ step_data'.auction_results[k].all_bids[j].truck_id
                        = step_data'.auction_results[k].truck_id =>
                        step_data'.auction_results[k].all_bids[j].bid_value
                           = step_data'.auction_results[k].winning_bid
                  /\ step_data'.auction_results[k].all_bids[j].bid_value.k = "fin" =>
                        \/ step_data'.auction_results[k].winning_bid.v
                              < step_data'.auction_results[k].all_bids[j].bid_value.v
                        \/ /\ step_data'.auction_results[k].winning_bid.v
                                 = step_data'.auction_results[k].all_bids[j].bid_value.v
                           /\ step_data'.auction_results[k].truck_id
                                 <= step_data'.auction_results[k].all_bids[j].truck_id]_vars

-----------------------------------------------------------------------------
(* Direct calls of allocate_bins *)
AuctionBins == 3       \* bins in direct calls of allocate_bins

\* the lists of distinct bin ids handed over: ids of the bins map and one that is not
EligibleLists ==
    {q \in UNION {[1 .. k -> 0 .. AuctionBins] : k \in 0 .. AuctionBins} :
        \A i, j \in DOMAIN q : i # j => q[i] # q[j]}

\* the fleets tried: room for one critical bin per truck, or for all the bins
AuctionFleets ==
    {[t \in 0 .. NumTrucks - 1 |-> Truck(Depot, capacity)] :
        capacity \in {TruckCapacity, AuctionBins * BinCapacity}}

InitAuction ==
    /\ NoCity(GridSize)
    /\ \E g \in Views(GridSize, 1) :
       \E pos \in Placements(GridSize, AuctionBins) :
       \E fleet \in AuctionFleets :
       \E eligible_bin_ids \in EligibleLists :
          call = [op |-> "allocate_bins", eligible_bin_ids |-> eligible_bin_ids,
                  trucks |-> fleet,
                  bins |-> [b \in 0 .. AuctionBins - 1 |->
                              Bin(pos[b], BinCapacity, (BinCapacity * 8) \div 10, FillRate)],
                  graph |-> g, done |-> FALSE]

\* trace holds the state of the pass before its loop and after every iteration; the
\* last of them carries the allocations returned and the trucks as they are left
CallAllocate ==
    /\ call.op = "allocate_bins"
    /\ ~call.done
    /\ call' = [call EXCEPT !.done = TRUE] @@
               [trace |-> AuctionTrace(<<AuctionStart(call.trucks)>>,
                                       call.eligible_bin_ids, call.bins, call.graph,
                                       Depot)]
    /\ UNCHANGED CityVars

NextAuction == CallAllocate

SpecAuction == InitAuction /\ [][NextAuction]_vars

AllocateReturned == call.op = "allocate_bins" /\ call.done

\* the rounds of the pass that ended with a win
WinningRounds == {i \in 1 .. Len(call.trace) - 1 : call.trace[i + 1] # call.trace[i]}

\* the AllocationResult of winning round i
WinOf(i) == call.trace[i + 1].allocations[Len(call.trace[i + 1].allocations)]

\* C23: after each win of an allocation pass the cost of the winner's working route with
\* the bin (from the truck's position through the waypoints in order and back to the
\* depot) is the cost of its working route before the win plus the winning bid.
C23_BidIsCostIncrease ==
    AllocateReturned =>
        \A i \in WinningRounds :
            calculate_route_cost(call.trucks[WinOf(i).truck_id].position,
                                 call.trace[i + 1].truck_routes[WinOf(i).truck_id],
                                 Depot, call.graph)
            = FAdd(calculate_route_cost(call.trucks[WinOf(i).truck_id].position,
                                        call.trace[i].truck_routes[WinOf(i).truck_id],
                                        Depot, call.graph),
                   WinOf(i).winning_bid)

-----------------------------------------------------------------------------
(* The order of an allocation pass *)

\* the ids of the bins truck tid won, in the order of the allocations
RECURSIVE WonBy(_, _)
WonBy(allocations, tid) ==
    IF allocations = <<>> THEN <<>>
    ELSE IF Head(allocations).truck_id = tid
         THEN <<Head(allocations).bin_id>> \o WonBy(Tail(allocations), tid)
         ELSE WonBy(Tail(allocations), tid)

\* the place of bin_id in a list of distinct ids
IndexOf(q, bin_id) == CHOOSE i \in DOMAIN q : q[i] = bin_id

\* what a pass over the list eligible leaves behind: allocations in the order of the list
\* and only for bins of the map, each truck's assigned_bins extended by the bins it won in
\* that order, the position of every assigned bin in the truck's route at the index the
\* bin has in assigned_bins, and nothing more in either list
AllocatedInOrder(eligible, bins_, before, after, allocations) ==
    /\ \A k \in DOMAIN allocations :
          /\ allocations[k].bin_id \in Ids(eligible) \cap DOMAIN bins_
          /\ \A j \in DOMAIN allocations :
                j < k => IndexOf(eligible, allocations[j].bin_id)
                            < IndexOf(eligible, allocations[k].bin_id)
    /\ \A tid \in DOMAIN before :
          /\ after[tid].assigned_bins
                = before[tid].assigned_bins \o WonBy(allocations, tid)
          /\ Len(after[tid].route)
                = Len(before[tid].route) + Len(WonBy(allocations, tid))
          /\ \A i \in DOMAIN after[tid].assigned_bins :
                /\ i \in DOMAIN after[tid].route
                /\ after[tid].route[i] = bins_[after[tid].assigned_bins[i]].position

\* C24: an allocation pass of the application takes the GREEN bins in the order supplied;
\* every allocated bin is appended once to its winner's assigned_bins and its position to
\* that truck's route at the same index, and the AllocationResults are in input order.
C24_AllocatesInOrder ==
    [][AllocateStep =>
        AllocatedInOrder(step_data.green_bin_ids, bins, trucks, trucks',
                         step_data'.auction_results)]_vars

-----------------------------------------------------------------------------
(* Waypoints the planner cannot reach *)

\* the waypoints, in the planner's order, that A* finds a path to from start
Reached(g, start, ordered_waypoints) ==
    SelectSeq(ordered_waypoints, LAMBDA wp : astar_path(g, start, wp).found)

\* where the planner stands after its waypoint loop
LastReached(g, start, ordered_waypoints) ==
    IF Reached(g, start, ordered_waypoints) = <<>> THEN start
    ELSE Reached(g, start, ordered_waypoints)[Len(Reached(g, start, ordered_waypoints))]

\* C25: plan_route with waypoints skips those A* finds no path to: the returned path
\* passes through none of them, visits the others in the planner's order along open
\* roads, and ends at the depot whenever A* finds a path to the depot from the last
\* waypoint reached (from start when none was).
C25_UnreachableWaypointSkipped ==
    (RouteReturned /\ call.waypoints # <<>>) =>
        /\ \A i \in DOMAIN call.result.path :
              astar_path(call.graph, call.start, call.result.path[i]).found
        /\ VisitsInOrder(call.result.path,
                         Reached(call.graph, call.start, call.result.waypoints), 1)
        /\ Drivable(call.graph, call.result.path)
        /\ astar_path(call.graph,
                      LastReached(call.graph, call.start, call.result.waypoints),
                      call.depot).found =>
              /\ call.result.path # <<>>
              /\ call.result.path[Len(call.result.path)] = call.depot

-----------------------------------------------------------------------------
(* The path and the distance of a RouteResult *)

\* C29: whatever plan_route returns, with or without waypoints, a path that is not empty
\* begins at the start position and RouteResult.distance is its number of edges.
C29_DistanceIsPathLength ==
    (RouteReturned /\ call.result.path # <<>>) =>
        /\ call.result.path[1] = call.start
        /\ call.result.distance = Fin(PathEdges(call.result.path))

-----------------------------------------------------------------------------
(* The fleet-wide capacity check of a reasoning pass *)

\* the room left on the trucks of the set tids, taken together
RECURSIVE FleetRoom(_, _)
FleetRoom(trucks_, tids) ==
    IF tids = {} THEN 0
    ELSE (trucks_[Least(tids)].capacity - trucks_[Least(tids)].current_load)
         + FleetRoom(trucks_, tids \ {Least(tids)})

\* the waste of the bins the first n results classify GREEN
RECURSIVE GreenFill(_, _, _)
GreenFill(results, bins_, n) ==
    IF n = 0 THEN 0
    ELSE GreenFill(results, bins_, n - 1)
         + (IF results[n].status = "GREEN" THEN bins_[results[n].bin_id].fill_level ELSE 0)

\* C26: after a reasoning pass the waste of the GREEN bins together is at most the room
\* left on the fleet (the sum of capacity - current_load), and a base-eligible bin is
\* ORANGE with block_reason "Capacity Constraint" exactly when its waste on top of that of
\* the GREEN bins before it in the order of the bins map exceeds that room.
C26_GreenWithinFleetCapacity ==
    ReasonReturned =>
        /\ GreenFill(call.result, call.bins, Len(call.result))
              <= FleetRoom(call.trucks, DOMAIN call.trucks)
        /\ \A i \in DOMAIN call.result :
              BaseEligible(call.bins[call.result[i].bin_id]) =>
                 ((/\ call.result[i].status = "ORANGE"
                   /\ call.result[i].block_reason = "Capacity Constraint")
                  <=> GreenFill(call.result, call.bins, i - 1)
                         + call.bins[call.result[i].bin_id].fill_level
                      > FleetRoom(call.trucks, DOMAIN call.trucks))

\* C26 witness: a loaded truck; a bin is blocked for capacity, a smaller bin after it
\* is GREEN, and the GREEN bins fill the room left to the last unit
C26_Witness ==
    /\ ReasonReturned
    /\ \E tid \in DOMAIN call.trucks : call.trucks[tid].current_load > 0
    /\ \E i, j \in DOMAIN call.result :
          /\ i < j
          /\ call.result[i].block_reason = "Capacity Constraint"
          /\ call.result[j].status = "GREEN"
    /\ GreenFill(call.result, call.bins, Len(call.result))
          = FleetRoom(call.trucks, DOMAIN call.trucks)

-----------------------------------------------------------------------------
(* A reasoning pass followed by an allocation pass *)
PassBins == 6          \* bins of a reasoning pass followed by an allocation pass

\* the place of a node in row-major order
Rank(size, pos) == pos[1] * size + pos[2]

\* the placements tried: distinct nodes other than the depot, in row-major order or in
\* the reverse of it
PassPlacements(size, n) ==
    {f \in [0 .. n - 1 -> Nodes(size) \ {Depot}] :
        \/ \A i, j \in 0 .. n - 1 : i < j => Rank(size, f[i]) < Rank(size, f[j])
        \/ \A i, j \in 0 .. n - 1 : i < j => Rank(size, f[i]) > Rank(size, f[j])}

\* the fleets tried: one truck or more at the depot, each with room for one critical bin
\* or for all of them
PassFleets ==
    {[t \in 0 .. n - 1 |-> Truck(Depot, capacity)] :
        n \in 1 .. NumTrucks, capacity \in {TruckCapacity, PassBins * BinCapacity}}

InitPass ==
    /\ NoCity(RouteGrid)
    /\ \E pos \in PassPlacements(RouteGrid, PassBins) :
       \E fleet \in PassFleets :
          call = [op |-> "reason_allocate", trucks |-> fleet,
                  bins |-> [b \in 0 .. PassBins - 1 |->
                              Bin(pos[b], BinCapacity, (BinCapacity * 8) \div 10, FillRate)],
                  graph |-> NxGraph(RouteGrid, GridEdges(RouteGrid), {}),
                  done |-> FALSE]

\* the Reason and Allocate phases of run_step_logic, one after the other
CallPass ==
    /\ call.op = "reason_allocate"
    /\ ~call.done
    /\ call' = [call EXCEPT !.done = TRUE] @@
               Bind(reason_all_bins(call.bins, <<>>, call.trucks),
                    LAMBDA reasoning_results :
                       [reasoning_results |-> reasoning_results,
                        result |-> allocate_bins(get_green_bins(reasoning_results),
                                                 call.trucks, call.bins, call.graph,
                                                 Depot)])
    /\ UNCHANGED CityVars

NextPass == CallPass

SpecPass == InitPass /\ [][NextPass]_vars

PassReturned == call.op = "reason_allocate" /\ call.done

\* C27: after a reasoning pass and the allocation pass over its GREEN bins no truck has
\* more than 5 assigned bins.
C27_AtMostFivePerTruck ==
    PassReturned =>
        \A tid \in DOMAIN call.result.trucks :
            Len(call.result.trucks[tid].assigned_bins) <= ASSIGNMENTS_PER_TRUCK

-----------------------------------------------------------------------------
(* Bins collected off the planned path *)

\* the bins assigned to some truck whose planned path passes their position
OnPlannedPath(trucks_, bins_, routes_) ==
    {b \in DOMAIN bins_ :
        \E tid \in DOMAIN trucks_ :
            /\ b \in Ids(trucks_[tid].assigned_bins)
            /\ bins_[b].position \in Ids(routes_[tid])}

\* C30: the Plan/Execute phase empties and marks collected only bins whose position is on
\* the planned path of the truck they are assigned to, and the bins-collected count
\* counts no other bin.
C30_CollectedOnlyOnPath ==
    [][ExecuteStep =>
        /\ \A b \in DOMAIN bins :
              (bins'[b].collected /\ ~bins[b].collected) =>
                  /\ b \in OnPlannedPath(trucks, bins, routes')
                  /\ bins'[b].fill_level = 0
        /\ \A b \in DOMAIN bins \ OnPlannedPath(trucks, bins, routes') :
              bins'[b] = bins[b]
        /\ kpi_bins_collected' <= Cardinality(OnPlannedPath(trucks, bins, routes'))]_vars

-----------------------------------------------------------------------------
(* The dynamic maintenance scheduler: src/students/S12345_KhobaitSimran/scheduler_dynamic.py

   Hours are whole numbers, an asset criticality is held as twice its coefficient (0.5
   is 1, 3.0 is 6), and a priority score is the exact quotient Rat(n, d). *)
MaxDynUpdates == 2     \* calls of DynamicScheduler.update in one run
MaxDtcs == 2           \* active DTCs handed to one call of update

\* TaskSeverity
LOW == 1
MEDIUM == 2
HIGH == 3
CRITICAL == 5
EMERGENCY == 10

\* AssetCriticality, doubled
STANDARD == 2
IMPORTANT == 3
ASSET_CRITICAL == 4
SAFETY_CRITICAL == 6

\* DynamicScheduler.DTC_TASK_MAP: the task id and the severity for a DTC code
DTC_TASK_MAP ==
    [P0217 |-> <<"emergency_cooling_check", EMERGENCY>>,
     P0522 |-> <<"emergency_oil_check", EMERGENCY>>,
     P0562 |-> <<"battery_check", HIGH>>,
     P0563 |-> <<"voltage_regulator_check", HIGH>>,
     P2263 |-> <<"vibration_inspection", CRITICAL>>,
     P0521 |-> <<"oil_pressure_sensor_check", HIGH>>,
     P0118 |-> <<"coolant_sensor_check", MEDIUM>>]

\* MaintenanceTask.__init__
MaintenanceTask(task_id, severity, asset_criticality, base_due_hours) ==
    [task_id |-> task_id, severity |-> severity, asset_criticality |-> asset_criticality,
     base_due_hours |-> base_due_hours, remaining_hours |-> base_due_hours,
     priority_score |-> Rat(0, 1), status |-> "pending"]

\* MaintenanceTask.calculate_priority: (w_severity * c_asset) / rul, with 0.01 for a rul
\* of zero or less; rul_hours is None or a number
calculate_priority(task, rul_hours) ==
    Bind(IF rul_hours # None THEN rul_hours[1] ELSE task.remaining_hours,
         LAMBDA rul :
            [task EXCEPT !.priority_score =
                IF rul <= 0 THEN Rat(task.severity * task.asset_criticality * 100, 2)
                ELSE Rat(task.severity * task.asset_criticality, 2 * rul)])

\* MaintenanceTask.update_remaining_time
update_remaining_time(task, hours_elapsed) ==
    Bind(IF task.remaining_hours - hours_elapsed < 0 THEN 0
         ELSE task.remaining_hours - hours_elapsed,
         LAMBDA remaining :
            [task EXCEPT !.remaining_hours = remaining,
                         !.status = IF remaining <= 0 THEN "overdue"
                                    ELSE IF remaining * 4 < task.base_due_hours THEN "soon"
                                    ELSE "pending"])

\* self._heap[0] after _rebuild_heap: heapq keeps the least entry first, and of the
\* entries (-priority_score, counter, task_id) the least is the first task in the order
\* of the dict among those with the highest score; None for an empty heap
_rebuild_heap(tasks) ==
    IF tasks = <<>> THEN None
    ELSE Some(tasks[CHOOSE i \in DOMAIN tasks :
                       \A j \in DOMAIN tasks :
                          \/ RatLess(tasks[j].priority_score, tasks[i].priority_score)
                          \/ /\ RatLeq(tasks[j].priority_score, tasks[i].priority_score)
                             /\ i <= j].task_id)

\* DynamicScheduler._init_standard_tasks; tasks is the dict, in insertion order
DynamicScheduler ==
    [tasks |-> <<MaintenanceTask("oil_change_1", HIGH, ASSET_CRITICAL, 45),
                 MaintenanceTask("filter_replace_1", MEDIUM, IMPORTANT, 120),
                 MaintenanceTask("valve_inspect_1", MEDIUM, STANDARD, 300),
                 MaintenanceTask("coolant_check_1", MEDIUM, IMPORTANT, 50),
                 MaintenanceTask("belt_inspect_1", LOW, STANDARD, 200)>>,
     _heap |-> Some("oil_change_1"),
     simulation_hours |-> 0]

\* DynamicScheduler._inject_dtc_task for a code of DTC_TASK_MAP: the dict it leaves
_inject_dtc_task(tasks, dtc_code) ==
    IF \E i \in DOMAIN tasks : tasks[i].task_id = DTC_TASK_MAP[dtc_code][1]
    THEN [i \in DOMAIN tasks |->
            IF tasks[i].task_id = DTC_TASK_MAP[dtc_code][1]
            THEN [tasks[i] EXCEPT
                    !.severity = IF DTC_TASK_MAP[dtc_code][2] > @
                                 THEN DTC_TASK_MAP[dtc_code][2] ELSE @,
                    !.remaining_hours = IF @ < 1 THEN @ ELSE 1]
            ELSE tasks[i]]
    ELSE Append(tasks, MaintenanceTask(DTC_TASK_MAP[dtc_code][1],
                                       DTC_TASK_MAP[dtc_code][2], SAFETY_CRITICAL, 1))

\* the loop of update over active_dtcs
RECURSIVE InjectAll(_, _)
InjectAll(tasks, active_dtcs) ==
    IF active_dtcs = <<>> THEN tasks
    ELSE InjectAll(IF Head(active_dtcs) \in DOMAIN DTC_TASK_MAP
                   THEN _inject_dtc_task(tasks, Head(active_dtcs))
                   ELSE tasks,
                   Tail(active_dtcs))

\* round(x, 3) of a score that is not negative, in thousandths: to the nearest, a tie to
\* the even one
Round3(x) ==
    IF 2 * ((1000 * x.n) % x.d) > x.d THEN (1000 * x.n) \div x.d + 1
    ELSE IF 2 * ((1000 * x.n) % x.d) < x.d THEN (1000 * x.n) \div x.d
    ELSE (1000 * x.n) \div x.d + (((1000 * x.n) \div x.d) % 2)

\* MaintenanceTask.to_dict: the id and the score as it is shown
to_dict(task) ==
    [task_id |-> task.task_id, priority_score |-> Round3(task.priority_score),
     remaining_hours |-> task.remaining_hours]

\* sorted(self.tasks.values(), key=priority_score, reverse=True): equal scores stay in
\* the order of the dict
RECURSIVE SortedTasks(_, _)
SortedTasks(tasks, sorted) ==
    IF tasks = <<>> THEN sorted
    ELSE SortedTasks(Tail(tasks),
            SelectSeq(sorted, LAMBDA t : RatLeq(Head(tasks).priority_score, t.priority_score))
            \o <<Head(tasks)>>
            \o SelectSeq(sorted, LAMBDA t : RatLess(t.priority_score,
                                                    Head(tasks).priority_score)))

\* DynamicScheduler.get_sorted_tasks(limit=10)
get_sorted_tasks(self) ==
    [i \in 1 .. (IF Len(self.tasks) < 10 THEN Len(self.tasks) ELSE 10) |->
        to_dict(SortedTasks(self.tasks, <<>>)[i])]

\* DynamicScheduler.get_next_task: None, or the dict of the task at the top of the heap
get_next_task(self) ==
    IF self._heap = None THEN None
    ELSE IF \E i \in DOMAIN self.tasks : self.tasks[i].task_id = self._heap[1]
    THEN Some(to_dict(self.tasks[CHOOSE i \in DOMAIN self.tasks :
                                    self.tasks[i].task_id = self._heap[1]]))
    ELSE None

\* the tasks after the first loop of update and the injections
UpdatedTasks(self, elapsed_hours, active_dtcs, rul_hours) ==
    InjectAll([i \in DOMAIN self.tasks |->
                 calculate_priority(update_remaining_time(self.tasks[i], elapsed_hours),
                                    rul_hours)],
              active_dtcs)

\* the scheduler DynamicScheduler.update leaves
UpdateScheduler(self, elapsed_hours, active_dtcs, rul_hours) ==
    [tasks |-> UpdatedTasks(self, elapsed_hours, active_dtcs, rul_hours),
     _heap |-> _rebuild_heap(UpdatedTasks(self, elapsed_hours, active_dtcs, rul_hours)),
     simulation_hours |-> self.simulation_hours + elapsed_hours]

\* the hours, the DTC lists and the RUL estimates tried
ElapsedHours == {0, 25, 50}
DtcCodes == {"P0217", "P0562", "P0118", "P9999"}
DtcLists == UNION {[1 .. k -> DtcCodes] : k \in 0 .. MaxDtcs}
RulHours == {None, Some(0), Some(10)}

InitDynamic ==
    /\ NoCity(GridSize)
    /\ call = [op |-> "DynamicScheduler", self |-> DynamicScheduler, updates |-> 0]

\* DynamicScheduler.update(elapsed_hours, active_dtcs, rul_hours); result is the list
\* returned
DynamicUpdate ==
    /\ call.op \in {"DynamicScheduler", "DynamicScheduler.update"}
    /\ call.updates < MaxDynUpdates
    /\ \E elapsed_hours \in ElapsedHours, active_dtcs \in DtcLists, rul_hours \in RulHours :
          call' = Bind(UpdateScheduler(call.self, elapsed_hours, active_dtcs, rul_hours),
                       LAMBDA self :
                          [op |-> "DynamicScheduler.update", self |-> self,
                           updates |-> call.updates + 1,
                           elapsed_hours |-> elapsed_hours, active_dtcs |-> active_dtcs,
                           rul_hours |-> rul_hours,
                           result |-> get_sorted_tasks(self)])
    /\ UNCHANGED CityVars

NextDynamic == DynamicUpdate

SpecDynamic == InitDynamic /\ [][NextDynamic]_vars

DynamicReturned == call.op = "DynamicScheduler.update"

\* (severity weight x asset criticality) / RUL for a task, the RUL being rul_hours when
\* it is given and the task's remaining hours otherwise, 0.01 when that is not positive
FormulaPriority(task, rul_hours) ==
    IF (IF rul_hours # None THEN rul_hours[1] ELSE task.remaining_hours) <= 0
    THEN Rat(task.severity * task.asset_criticality * 100, 2)
    ELSE Rat(task.severity * task.asset_criticality,
             2 * (IF rul_hours # None THEN rul_hours[1] ELSE task.remaining_hours))

\* the task of the scheduler with the given id
TaskOf(self, task_id) ==
    self.tasks[CHOOSE i \in DOMAIN self.tasks : self.tasks[i].task_id = task_id]

\* C28: update returns the tasks in descending order of priority, the priority of every
\* task returned (one injected by a DTC of the same call as well) is
\* (severity weight x asset criticality) / RUL with 0.01 for a RUL of zero or less, and
\* get_next_task names the first task returned.
C28_SortedByFormulaPriority ==
    DynamicReturned =>
        /\ \A i \in DOMAIN call.result :
              /\ call.result[i].priority_score
                    = Round3(FormulaPriority(TaskOf(call.self, call.result[i].task_id),
                                             call.rul_hours))
              /\ \A j \in DOMAIN call.result :
                    i < j => call.result[i].priority_score >= call.result[j].priority_score
        /\ call.result # <<>> =>
              /\ get_next_task(call.self) # None
              /\ get_next_task(call.self)[1].task_id = call.result[1].task_id

=============================================================================
